---- MODULE Spec2Model ----
(***************************************************************************)
(* A model of the hiding multilinear commitment of spartan/src/zk.rs:      *)
(* the mask polynomial generator, the specialised commitment scheme for    *)
(* mask polynomials (SpecMultiCommit) and the hiding commitment built on   *)
(* top of the multilinear commitment (ZKMLCommit).                         *)
(*                                                                         *)
(* Scalars are the elements 0..Modulus-1 of a prime field.  The groups G1, *)
(* G2 and GT have prime order Modulus; a group element is written as its   *)
(* discrete logarithm to a fixed base, so that group addition is addition  *)
(* of logarithms, a scalar multiple is a product, and the pairing of a*B1  *)
(* with b*B2 is (a*b)*BT.                                                  *)
(***************************************************************************)
EXTENDS Integers, Sequences, FiniteSets, TLC

VARIABLES
    pc,          \* the operation that returned last ("start" before any)
    rng,         \* state of the random number generator handed to the calls
    call,        \* the call that returned last and the arguments of the
                 \* calls so far
    mask_out,    \* value returned by generate_mask_polynomial
    special,     \* value returned by SpecMultiCommit::special_setup
    srs,         \* value returned by ZKMLCommit::setup
    t,           \* the trapdoor scalars drawn in setup (local to setup)
    keys,        \* value returned by ZKMLCommit::trim: (ck, vk)
    polynomial,  \* the committed multilinear polynomial (its evaluations)
    commitment,  \* first component returned by ZKMLCommit::commit
    p_hat,       \* second component returned by ZKMLCommit::commit
    point,       \* the opening point
    proof,       \* value returned by ZKMLCommit::open
    checked,     \* the inputs handed to ZKMLCommit::check and its verdict
    wargs,       \* the arguments of zk_sumcheck_verifier_wrapper
    transcript,  \* the transcript the wrapper was handed
    challenge,   \* the local `challenge` of the wrapper
    subclaim,    \* the local `subclaim` of the wrapper
    outcome,     \* the value returned by the wrapper
    matrix,      \* the SparseMatrix the matrix operations act on
    set_cells,   \* the cells set so far and the value each was set to last
    num_sets,    \* the number of set calls so far
    product,     \* the value returned by a matrix-vector product
    opcodes,     \* circuit.opcodes, the sequence circuit_stats scans
    scan,        \* the position of the scan and the locals of main
    report       \* what main prints about memory operations

\* the state of a commitment session and the state of a wrapper call
sessionVars == <<mask_out, special, srs, t, keys, polynomial, commitment,
                 p_hat, point, proof, checked>>
wrapperVars == <<wargs, transcript, challenge, subclaim, outcome>>

\* the state of the matrix operations and of a circuit_stats run
matrixVars == <<matrix, set_cells, num_sets, product>>
statsVars == <<opcodes, scan, report>>

vars == <<pc, rng, call, mask_out, special, srs, t, keys, polynomial,
          commitment, p_hat, point, proof, checked, wargs, transcript,
          challenge, subclaim, outcome, matrix, set_cells, num_sets,
          product, opcodes, scan, report>>

-----------------------------------------------------------------------------
(* Bounds of the model.                                                    *)

MaxVars == 2      \* largest number of variables of a polynomial or an SRS
MaxDeg == 2       \* largest degree / hiding bound
MaskSeeds == 12   \* generator states tried for the mask-PC operations
Seeds == 4        \* generator states tried for a commitment session
NumPolys == 3     \* witness polynomials tried per variable count

(* The scalar field: a small prime stands for the order of Bn254's scalar  *)
(* field.  The generator: a multiplicative congruential generator.         *)
Modulus == 3
RngMod == 31
RngMul == 3

None == [some |-> FALSE]
Some(x) == [some |-> TRUE, val |-> x]

-----------------------------------------------------------------------------
(* Field arithmetic (ark_ff::Field).                                       *)

Fld == 0..(Modulus - 1)
FAdd(a, b) == (a + b) % Modulus
FSub(a, b) == (a + Modulus - b) % Modulus
FMul(a, b) == (a * b) % Modulus
FNeg(a) == (Modulus - a) % Modulus

RECURSIVE FPow(_, _)
FPow(a, e) == IF e = 0 THEN 1 % Modulus ELSE FMul(a, FPow(a, e - 1))

FInv(a) == FPow(a, Modulus - 2)
FDiv(a, b) == FMul(a, FInv(b))

RECURSIVE Pow2(_)
Pow2(k) == IF k = 0 THEN 1 ELSE 2 * Pow2(k - 1)

Min(a, b) == IF a < b THEN a ELSE b

\* sum of the field elements f[i], i in lo..hi
RECURSIVE FSumRange(_, _, _)
FSumRange(f, lo, hi) ==
    IF lo > hi THEN 0 ELSE FAdd(f[lo], FSumRange(f, lo + 1, hi))

\* sum of the field elements f[x], x in S
RECURSIVE FSumSet(_, _)
FSumSet(f, S) ==
    IF S = {} THEN 0
    ELSE LET x == CHOOSE y \in S : TRUE
         IN  FAdd(f[x], FSumSet(f, S \ {x}))

-----------------------------------------------------------------------------
(* The random number generator (rand::RngCore).  F::rand and G::rand read  *)
(* the state and advance it.                                               *)

RngNext(s) == (RngMul * s) % RngMod

RECURSIVE RngAdv(_, _)
RngAdv(s, n) == IF n = 0 THEN s ELSE RngAdv(RngNext(s), n - 1)

\* F::rand: the i-th scalar drawn from state s (i = 0 is the next draw)
FRand(s, i) == RngAdv(s, i) % Modulus

\* G::rand: the i-th group element drawn from state s; never the identity
GRand(s, i) == 1 + (RngAdv(s, i) % (Modulus - 1))

-----------------------------------------------------------------------------
(* Sparse polynomials (ark_poly::multivariate).  A term is the sequence of *)
(* its (variable, power) pairs with power > 0, in variable order; the      *)
(* constant term is the empty sequence.  A polynomial is its number of     *)
(* variables and the map from its terms to their nonzero coefficients.     *)

\* SparseTerm::new on a vector whose variables are distinct and in order
\* (all the vectors this code builds are): drops the pairs of power 0
TermNew(vec) == SelectSeq(vec, LAMBDA vp : vp[2] # 0)

ConstTerm == << >>

RECURSIVE TermDegree(_)
TermDegree(term) ==
    IF term = << >> THEN 0 ELSE Head(term)[2] + TermDegree(Tail(term))

\* SparsePolynomial::from_coefficients_vec: like terms are added up and
\* terms of coefficient zero are removed
FromCoefficientsVec(num_vars, tv) ==
    LET ts == {tv[i][2] : i \in 1..Len(tv)}
        coef(term) ==
            FSumRange([i \in 1..Len(tv) |->
                          IF tv[i][2] = term THEN tv[i][1] ELSE 0], 1, Len(tv))
        nz == {term \in ts : coef(term) # 0}
    IN  [num_vars |-> num_vars, terms |-> [term \in nz |-> coef(term)]]

RECURSIVE TermEval(_, _)
TermEval(term, z) ==
    IF term = << >> THEN 1 % Modulus
    ELSE FMul(FPow(z[Head(term)[1] + 1], Head(term)[2]),
              TermEval(Tail(term), z))

\* SparsePolynomial::evaluate
PolyEval(p, z) ==
    FSumSet([term \in DOMAIN p.terms |-> FMul(p.terms[term], TermEval(term, z))],
            DOMAIN p.terms)

PolyDegree(p) ==
    IF DOMAIN p.terms = {} THEN 0
    ELSE LET ds == {TermDegree(term) : term \in DOMAIN p.terms}
         IN  CHOOSE d \in ds : \A e \in ds : e <= d

-----------------------------------------------------------------------------
(* generate_mask_polynomial                                                *)

\* mask_polynomials[var][degree] as drawn: variable after variable, the
\* coefficients of one variable in order of degree
MaskDraws(s, num_variables, deg) ==
    [var \in 0..(num_variables - 1) |->
        [degree \in 0..deg |-> FRand(s, var * (deg + 1) + degree)]]

\* the variant that forgets that a constant counts twice on {0,1}
MaskSumGOnce(mp, num_variables, deg) ==
    FSumRange([var \in 0..(num_variables - 1) |->
                  FSumRange(mp[var], 0, deg)],
              0, num_variables - 1)

\* sum_g: twice each constant coefficient plus every other coefficient
MaskSumG(mp, num_variables, deg) ==
    FSumRange([var \in 0..(num_variables - 1) |->
                  FAdd(FAdd(mp[var][0], mp[var][0]),
                       FSumRange(mp[var], 1, deg))],
              0, num_variables - 1)

\* the variant whose inner loop starts one degree too high
MaskTermsShifted(mp, num_variables, deg) ==
    [k \in 1..(num_variables * (deg + 1)) |->
        LET var == (k - 1) \div (deg + 1)
            degree == (k - 1) % (deg + 1)
        IN  <<mp[var][degree], TermNew(<< <<var, degree + 1>> >>)>>]

\* the terms pushed by the closing loop, in order
MaskTerms(mp, num_variables, deg) ==
    [k \in 1..(num_variables * (deg + 1)) |->
        LET var == (k - 1) \div (deg + 1)
            degree == (k - 1) % (deg + 1)
        IN  <<mp[var][degree], TermNew(<< <<var, degree>> >>)>>]

\* the value returned and the generator state left behind; indexing
\* mask_polynomials[0] panics when there is no variable
GenerateMaskPolynomial(s, num_variables, deg, sum_to_zero) ==
    IF sum_to_zero /\ num_variables = 0
    THEN [panic |-> TRUE, rng |-> s]
    ELSE
    LET drawn == MaskDraws(s, num_variables, deg)
        sum_g == MaskSumG(drawn, num_variables, deg)
        mp == IF sum_to_zero
              THEN [drawn EXCEPT ![0][0] = FSub(@, FDiv(sum_g, 2 % Modulus))]
              ELSE drawn
    IN  [panic |-> FALSE,
         poly |-> FromCoefficientsVec(num_variables,
                                      MaskTerms(mp, num_variables, deg)),
         rng |-> RngAdv(s, num_variables * (deg + 1))]

-----------------------------------------------------------------------------
(* SpecMultiCommit::special_setup and special_setup_with_beta              *)

Err(e) == [ok |-> FALSE, err |-> e]

\* the key of powers_of_g for the monomial var^degree: the term built from
\* the pairs (v, number of occurrences of v), v in 0..num_vars-1
MonomialTerm(num_vars, var, degree) ==
    TermNew([v \in 1..num_vars |->
                <<v - 1, IF v - 1 = var THEN degree ELSE 0>>])

\* every monomial of 1 <= degree <= max_degree in one variable, and the
\* empty term pushed last
SetupTerms(num_vars, max_degree) ==
    {MonomialTerm(num_vars, var, degree) :
        var \in 0..(num_vars - 1), degree \in 1..max_degree}
    \cup {ConstTerm}

\* betas is the sequence of trapdoor scalars; draws g, gamma_g and h
SpecialSetupWithBeta(max_degree, num_vars, s, betas) ==
    IF ~num_vars.some THEN Err("InvalidNumberOfVariables")
    ELSE IF num_vars.val < 1 THEN Err("InvalidNumberOfVariables")
    ELSE IF max_degree < 1 THEN Err("DegreeIsZero")
    ELSE
    LET n == num_vars.val
        g == GRand(s, 0)
        gamma_g == GRand(s, 1)
        h == GRand(s, 2)
    IN  [ok |-> TRUE,
         pp |-> [num_vars |-> n,
                 max_degree |-> max_degree,
                 powers_of_g |->
                     [term \in SetupTerms(n, max_degree) |->
                         FMul(g, TermEval(term, betas))],
                 gamma_g |-> gamma_g,
                 powers_of_gamma_g |->
                     [i \in 1..n |->
                         [j \in 1..(max_degree + 1) |->
                             FMul(gamma_g, FPow(betas[i], j))]],
                 h |-> h,
                 beta_h |-> [i \in 1..n |-> FMul(h, betas[i])]],
         rng |-> RngAdv(s, 3)]

\* the variant that accepts a polynomial without variables
SpecialSetupNoVarCheck(max_degree, num_vars, s) ==
    IF ~num_vars.some THEN Err("InvalidNumberOfVariables")
    ELSE IF max_degree < 1 THEN Err("DegreeIsZero")
    ELSE IF num_vars.val < 1
    THEN [ok |-> TRUE,
          pp |-> [num_vars |-> 0, max_degree |-> max_degree,
                  powers_of_g |-> [term \in {ConstTerm} |-> GRand(s, 0)],
                  gamma_g |-> GRand(s, 1), powers_of_gamma_g |-> << >>,
                  h |-> GRand(s, 2), beta_h |-> << >>],
          rng |-> RngAdv(s, 3)]
    ELSE SpecialSetupWithBeta(max_degree, num_vars,
                              RngAdv(s, num_vars.val),
                              [i \in 1..num_vars.val |-> FRand(s, i - 1)])

SpecialSetup(max_degree, num_vars, s) ==
    IF ~num_vars.some THEN Err("InvalidNumberOfVariables")
    ELSE IF num_vars.val < 1 THEN Err("InvalidNumberOfVariables")
    ELSE IF max_degree < 1 THEN Err("DegreeIsZero")
    ELSE SpecialSetupWithBeta(max_degree, num_vars,
                              RngAdv(s, num_vars.val),
                              [i \in 1..num_vars.val |-> FRand(s, i - 1)])

-----------------------------------------------------------------------------
(* ZKMLCommit::setup                                                       *)

Panic(msg) == [panic |-> TRUE, msg |-> msg]

RECURSIVE Log2(_)
Log2(n) == IF n <= 1 THEN 0 ELSE 1 + Log2(n \div 2)

\* a table of 2^k entries is a function on 0..2^k-1
TableLen(tab) == Cardinality(DOMAIN tab)

\* eq_extension: result[i+1] is the table of the factor of variable i,
\* t_i where bit i of x is set and 1 - t_i where it is not
EqExtension(tt) ==
    LET dim == Len(tt)
    IN  [i \in 1..dim |->
            [x \in 0..(Pow2(dim) - 1) |->
                LET bit == (x \div Pow2(i - 1)) % 2
                    ti == tt[i]
                    ti_xi == IF bit = 1 THEN ti ELSE 0
                IN  FAdd(FSub(FSub(FAdd(ti_xi, ti_xi), bit), ti), 1)]]

\* remove_dummy_variable: keeps the entries whose low pad bits are zero
RemoveDummyVariable(poly, pad) ==
    IF pad = 0 THEN poly
    ELSE LET nv == Log2(TableLen(poly)) - pad
         IN  [x \in 0..(Pow2(nv) - 1) |-> poly[x * Pow2(pad)]]

\* base in the iteration for variable i (0-based) of the loop over
\* (0..num_vars).rev(): the product of the factors of variables i..n-1
RECURSIVE EqBase(_, _)
EqBase(eq, i) ==
    IF i = Len(eq) - 1 THEN eq[Len(eq)]
    ELSE LET up == EqBase(eq, i + 1)
         IN  [x \in DOMAIN up |-> FMul(up[x], eq[i + 1][x])]

\* eq_arr, front to back
EqArr(tt) ==
    LET eq == EqExtension(tt)
    IN  [i \in 1..Len(tt) |-> RemoveDummyVariable(EqBase(eq, i - 1), i - 1)]

\* the base-scheme parameters built from g, h and the trapdoor scalars tt
MLParams(num_vars, g, h, tt) ==
    LET eq_arr == EqArr(tt)
    IN  [num_vars |-> num_vars,
         g |-> g,
         h_mask |-> [i \in 1..num_vars |-> FMul(h, tt[i])],
         h |-> h,
         powers_of_g |-> [i \in 1..num_vars |->
             [x \in 0..(Pow2(num_vars - i + 1) - 1) |-> FMul(g, eq_arr[i][x])]],
         powers_of_h |-> [i \in 1..num_vars |->
             [x \in 0..(Pow2(num_vars - i + 1) - 1) |-> FMul(h, eq_arr[i][x])]]]

\* the variant that derives the mask-PC parameters from trapdoor scalars
\* of its own instead of the ones of the base scheme
ZKSetupOwnBetas(num_vars, hiding_bound, s) ==
    LET g == GRand(s, 0)
        h == GRand(s, 1)
        tt == [i \in 1..num_vars |-> FRand(s, 1 + i)]
        mask == SpecialSetup(hiding_bound, Some(num_vars),
                             RngAdv(s, 2 + num_vars))
    IN  IF ~mask.ok THEN Panic(mask.err)
        ELSE [panic |-> FALSE,
              param |-> <<MLParams(num_vars, g, h, tt), mask.pp>>,
              t |-> tt,
              rng |-> mask.rng]

\* setup past its assertion: draws g, h and the trapdoor scalars, builds
\* the base-scheme parameters and unwraps the mask-PC parameters derived
\* from the same scalars
ZKSetupParams(num_vars, hiding_bound, s) ==
    LET g == GRand(s, 0)
        h == GRand(s, 1)
        tt == [i \in 1..num_vars |-> FRand(s, 1 + i)]
        mask == SpecialSetupWithBeta(hiding_bound, Some(num_vars),
                                     RngAdv(s, 2 + num_vars), tt)
    IN  IF ~mask.ok THEN Panic(mask.err)
        ELSE [panic |-> FALSE,
              param |-> <<MLParams(num_vars, g, h, tt), mask.pp>>,
              t |-> tt,
              rng |-> mask.rng]

\* the variant that raises a hiding bound of zero to one
ZKSetupClampsBound(num_vars, hiding_bound, s) ==
    IF num_vars = 0 THEN Panic("constant polynomial not supported")
    ELSE ZKSetupParams(num_vars, IF hiding_bound = 0 THEN 1 ELSE hiding_bound, s)

\* ZKMLCommit::setup: the value returned, the trapdoor scalars and the
\* generator state; the assertion and the unwrap panic
ZKSetup(num_vars, hiding_bound, s) ==
    IF num_vars = 0 THEN Panic("constant polynomial not supported")
    ELSE ZKSetupParams(num_vars, hiding_bound, s)

-----------------------------------------------------------------------------
(* ZKMLCommit::trim                                                        *)

\* MarlinPST13::trim(pp, supported_degree, 0, None)
PST13Trim(pp, supported_degree) ==
    IF supported_degree > pp.max_degree THEN Err("TrimmingDegreeTooLarge")
    ELSE [ok |-> TRUE,
          ck |-> [powers_of_g |->
                      [term \in {k \in DOMAIN pp.powers_of_g :
                                    TermDegree(k) <= supported_degree} |->
                          pp.powers_of_g[term]],
                  gamma_g |-> pp.gamma_g,
                  powers_of_gamma_g |->
                      [i \in 1..pp.num_vars |->
                          SubSeq(pp.powers_of_gamma_g[i], 1, supported_degree + 1)],
                  num_vars |-> pp.num_vars,
                  supported_degree |-> supported_degree,
                  max_degree |-> pp.max_degree],
          vk |-> [g |-> pp.powers_of_g[ConstTerm],
                  gamma_g |-> pp.gamma_g,
                  h |-> pp.h,
                  beta_h |-> pp.beta_h,
                  num_vars |-> pp.num_vars,
                  supported_degree |-> supported_degree,
                  max_degree |-> pp.max_degree]]

\* the variant that filters the terms and leaves their variables as they
\* are
ReindexPowersUnshifted(powers_of_g, to_reduce) ==
    [term \in {k \in DOMAIN powers_of_g :
                  k = ConstTerm \/ k[1][1] >= to_reduce} |-> powers_of_g[term]]

\* the variant that also filters the constant term out
ReindexPowersNoConstant(powers_of_g, to_reduce) ==
    LET kept == {k \in DOMAIN powers_of_g :
                    k # ConstTerm /\ k[1][1] >= to_reduce}
        image(k) == TermNew(<< <<k[1][1] - to_reduce, k[1][2]>> >>)
    IN  [term \in {image(k) : k \in kept} |->
            powers_of_g[CHOOSE k \in kept : image(k) = term]]

\* the filter and re-keying of ck2.powers_of_g
ReindexPowers(powers_of_g, to_reduce) ==
    LET kept == {k \in DOMAIN powers_of_g :
                    k = ConstTerm \/ k[1][1] >= to_reduce}
        image(k) == IF k = ConstTerm THEN k
                    ELSE TermNew(<< <<k[1][1] - to_reduce, k[1][2]>> >>)
    IN  [term \in {image(k) : k \in kept} |->
            powers_of_g[CHOOSE k \in kept : image(k) = term]]

ZKTrim(param, num_variables, deg_for_mask) ==
    IF num_variables > param[1].num_vars
    THEN Panic("attempt to subtract with overflow")
    ELSE
    LET to_reduce == param[1].num_vars - num_variables
        n == param[1].num_vars
        ck1 == [powers_of_h |-> SubSeq(param[1].powers_of_h, to_reduce + 1, n),
                powers_of_g |-> SubSeq(param[1].powers_of_g, to_reduce + 1, n),
                g |-> param[1].g,
                h |-> param[1].h,
                nv |-> num_variables]
        vk1 == [nv |-> num_variables,
                g |-> param[1].g,
                h |-> param[1].h,
                h_mask_random |-> SubSeq(param[1].h_mask, to_reduce + 1, n)]
        trimmed == PST13Trim(param[2], deg_for_mask)
    IN  IF ~trimmed.ok THEN Panic(trimmed.err)
        ELSE [panic |-> FALSE,
              ck |-> <<ck1,
                       [trimmed.ck EXCEPT !.powers_of_g =
                            ReindexPowers(@, to_reduce)]>>,
              vk |-> <<vk1, trimmed.vk>>]

-----------------------------------------------------------------------------
(* Commitments.  A multilinear polynomial is the table of its evaluations  *)
(* on the hypercube; bit i of the index is the value of variable i.        *)

\* VariableBaseMSM::msm_bigint on two tables: the sum over the common
\* prefix
MsmTables(bases, scalars) ==
    LET size == Min(TableLen(bases), TableLen(scalars))
    IN  FSumRange([x \in 0..(size - 1) |-> FMul(bases[x], scalars[x])],
                  0, size - 1)

\* MultilinearPC::commit(ck, polynomial).g_product
MLCommit(ck, evals) == MsmTables(ck.powers_of_g[1], evals)

\* the lookups ck.powers_of_g.get(term).unwrap() of an MSM succeed
HasPowers(ck, p) == DOMAIN p.terms \subseteq DOMAIN ck.powers_of_g

\* the MSM of the coefficients of p against the powers of its terms
MsmTerms(ck, p) ==
    FSumSet([term \in DOMAIN p.terms |->
                FMul(ck.powers_of_g[term], p.terms[term])],
            DOMAIN p.terms)

\* MarlinPST13::commit of one polynomial with no hiding bound, unwrapped,
\* as commit_mask calls it
CommitMask(ck, p) ==
    IF PolyDegree(p) > ck.supported_degree
    THEN Panic("PolynomialDegreeTooLarge")
    ELSE IF ~HasPowers(ck, p) THEN Panic("unwrap on None")
    ELSE [panic |-> FALSE, comm |-> MsmTerms(ck, p)]

\* the variant that draws a mask that sums to zero on the hypercube
ZKCommitZeroSum(ck, evals, hiding_bound, mask_num_var, s) ==
    LET nvp == Log2(TableLen(evals))
        k == IF mask_num_var.some THEN mask_num_var.val ELSE nvp
        gen == GenerateMaskPolynomial(s, k, hiding_bound, TRUE)
        hiding_commitment == CommitMask(ck[2], gen.poly)
    IN  IF hiding_commitment.panic THEN hiding_commitment
        ELSE [panic |-> FALSE,
              commitment |-> [g_product |->
                                  FAdd(MLCommit(ck[1], evals),
                                       hiding_commitment.comm),
                              nv |-> nvp],
              p_hat |-> gen.poly,
              rng |-> gen.rng]

\* the variant that publishes the base commitment without the mask
ZKCommitBaseOnly(ck, evals, hiding_bound, mask_num_var, s) ==
    LET nvp == Log2(TableLen(evals))
        k == IF mask_num_var.some THEN mask_num_var.val ELSE nvp
        gen == GenerateMaskPolynomial(s, k, hiding_bound, FALSE)
        hiding_commitment == CommitMask(ck[2], gen.poly)
    IN  IF hiding_commitment.panic THEN hiding_commitment
        ELSE [panic |-> FALSE,
              commitment |-> [g_product |-> MLCommit(ck[1], evals),
                              nv |-> nvp],
              p_hat |-> gen.poly,
              rng |-> gen.rng]

\* ZKMLCommit::commit: (commitment, labeled_p_hat) and the generator state
ZKCommit(ck, evals, hiding_bound, mask_num_var, s) ==
    LET nvp == Log2(TableLen(evals))
        k == IF mask_num_var.some THEN mask_num_var.val ELSE nvp
        gen == GenerateMaskPolynomial(s, k, hiding_bound, FALSE)
        hiding_commitment == CommitMask(ck[2], gen.poly)
    IN  IF hiding_commitment.panic THEN hiding_commitment
        ELSE [panic |-> FALSE,
              commitment |-> [g_product |->
                                  FAdd(MLCommit(ck[1], evals),
                                       hiding_commitment.comm),
                              nv |-> nvp],
              p_hat |-> gen.poly,
              rng |-> gen.rng]

-----------------------------------------------------------------------------
(* Openings.                                                               *)

\* the rounds i.. of MultilinearPC::open: r is the table r[k], k = nv - i
RECURSIVE MLOpenFrom(_, _, _, _)
MLOpenFrom(ck, r, i, z) ==
    IF i = ck.nv THEN << >>
    ELSE
    LET k == ck.nv - i
        point_at_k == z[i + 1]
        q == [b \in 0..(Pow2(k - 1) - 1) |-> FSub(r[2 * b + 1], r[2 * b])]
        r_next == [b \in 0..(Pow2(k - 1) - 1) |->
                      FAdd(FMul(r[2 * b], FSub(1, point_at_k)),
                           FMul(r[2 * b + 1], point_at_k))]
        scalars == [x \in 0..(Pow2(k) - 1) |-> q[x \div 2]]
    IN  <<MsmTables(ck.powers_of_g[i + 1], scalars)>>
            \o MLOpenFrom(ck, r_next, i + 1, z)

\* MultilinearPC::open(ck, polynomial, point).proofs
MLOpen(ck, evals, z) ==
    IF Log2(TableLen(evals)) # ck.nv THEN Panic("Invalid size of polynomial")
    ELSE IF Len(z) < ck.nv THEN Panic("index out of bounds")
    ELSE [panic |-> FALSE, proofs |-> MLOpenFrom(ck, evals, 0, z)]

\* MultilinearExtension::evaluate: fixes variable after variable
RECURSIVE MLEvaluate(_, _, _)
MLEvaluate(r, i, z) ==
    IF TableLen(r) = 1 THEN r[0]
    ELSE MLEvaluate([b \in 0..((TableLen(r) \div 2) - 1) |->
                        FAdd(FMul(r[2 * b], FSub(1, z[i + 1])),
                             FMul(r[2 * b + 1], z[i + 1]))],
                    i + 1, z)

\* the variant that divides by X_i only: the coefficient carried to the
\* next lower power is not multiplied by z_i
RECURSIVE DivideTermNoCarry(_, _, _, _)
DivideTermNoCarry(coeff, term_vec, idx, zi) ==
    IF term_vec[idx][2] > 1
    THEN LET lower == [term_vec EXCEPT ![idx][2] = @ - 1]
             rest == DivideTermNoCarry(coeff, lower, idx, zi)
         IN  [q |-> << <<coeff, TermNew(lower)>> >> \o rest.q, r |-> rest.r]
    ELSE LET removed == SubSeq(term_vec, 1, idx - 1)
                            \o SubSeq(term_vec, idx + 1, Len(term_vec))
         IN  [q |-> << <<coeff, TermNew(removed)>> >>,
              r |-> <<FMul(zi, coeff), TermNew(removed)>>]

\* the division of one term that contains X_i at position idx by X_i - z_i:
\* the quotient terms pushed and the remainder term
RECURSIVE DivideTerm(_, _, _, _)
DivideTerm(coeff, term_vec, idx, zi) ==
    IF term_vec[idx][2] > 1
    THEN LET lower == [term_vec EXCEPT ![idx][2] = @ - 1]
             rest == DivideTerm(FMul(coeff, zi), lower, idx, zi)
         IN  [q |-> << <<coeff, TermNew(lower)>> >> \o rest.q, r |-> rest.r]
    ELSE LET removed == SubSeq(term_vec, 1, idx - 1)
                            \o SubSeq(term_vec, idx + 1, Len(term_vec))
         IN  [q |-> << <<coeff, TermNew(removed)>> >>,
              r |-> <<FMul(zi, coeff), TermNew(removed)>>]

\* quotient_terms and remainder_terms of the division of cur by X_i - z_i
RECURSIVE DivideTerms(_, _, _, _)
DivideTerms(cur, todo, i, zi) ==
    IF todo = {} THEN [q |-> << >>, r |-> << >>]
    ELSE
    LET term == CHOOSE x \in todo : TRUE
        rest == DivideTerms(cur, todo \ {term}, i, zi)
        at == {idx \in 1..Len(term) : term[idx][1] = i}
    IN  IF term = ConstTerm THEN rest
        ELSE IF at # {}
        THEN LET d == DivideTerm(cur.terms[term], term,
                                 CHOOSE idx \in at : TRUE, zi)
             IN  [q |-> d.q \o rest.q, r |-> <<d.r>> \o rest.r]
        ELSE [q |-> rest.q, r |-> << <<cur.terms[term], term>> >> \o rest.r]

\* the quotients of the rounds i.. of divide_at_point
RECURSIVE DivideRounds(_, _, _)
DivideRounds(cur, i, z) ==
    IF i = cur.num_vars THEN << >>
    ELSE LET zi == IF i < Len(z) THEN z[i + 1] ELSE 0
             d == DivideTerms(cur, DOMAIN cur.terms, i, zi)
         IN  <<FromCoefficientsVec(cur.num_vars, d.q)>>
                 \o DivideRounds(FromCoefficientsVec(cur.num_vars, d.r),
                                  i + 1, z)

ZeroPoly(num_vars) == FromCoefficientsVec(num_vars, << >>)

\* SpecMultiCommit::divide_at_point
DivideAtPoint(p, z) ==
    IF DOMAIN p.terms = {} THEN [i \in 1..p.num_vars |-> ZeroPoly(p.num_vars)]
    ELSE DivideRounds(p, 0, z)

\* SpecMultiCommit::special_open; point[i] is read for the variables that
\* occur in the polynomial
SpecialOpen(ck, p, z) ==
    IF \E term \in DOMAIN p.terms :
           \E idx \in 1..Len(term) : term[idx][1] >= Len(z)
    THEN Panic("index out of bounds")
    ELSE
    LET witnesses == DivideAtPoint(p, z)
    IN  IF \E i \in 1..Len(witnesses) : ~HasPowers(ck, witnesses[i])
        THEN Panic("unwrap on None")
        ELSE [panic |-> FALSE,
              w |-> [i \in 1..Len(witnesses) |-> MsmTerms(ck, witnesses[i])],
              random_v |-> None]

\* ZKMLCommit::open_mask
OpenMask(ck, p, z) ==
    LET opened == SpecialOpen(ck, p, z)
    IN  IF opened.panic THEN opened
        ELSE IF Len(z) < p.num_vars THEN Panic("Invalid evaluation domain")
        ELSE [panic |-> FALSE, proof |-> opened,
              evaluation |-> PolyEval(p, z)]

\* the variant that returns the quotient commitments of the base scheme
ZKOpenBaseOnly(ck, evals, mask, z) ==
    LET base_proof == MLOpen(ck[1], evals, z)
        hiding == OpenMask(ck[2], mask, z)
    IN  IF base_proof.panic THEN base_proof
        ELSE IF hiding.panic THEN hiding
        ELSE [panic |-> FALSE,
              proof |-> <<[proofs |->
                              [i \in 1..Min(Len(base_proof.proofs),
                                            Len(hiding.proof.w)) |->
                                  base_proof.proofs[i]]],
                          hiding.evaluation>>]

\* the variant that returns the sum of the two evaluations as the scalar
ZKOpenSumEvaluation(ck, evals, mask, z) ==
    LET base_proof == MLOpen(ck[1], evals, z)
        hiding == OpenMask(ck[2], mask, z)
    IN  IF base_proof.panic THEN base_proof
        ELSE IF hiding.panic THEN hiding
        ELSE [panic |-> FALSE,
              proof |-> <<[proofs |->
                              [i \in 1..Min(Len(base_proof.proofs),
                                            Len(hiding.proof.w)) |->
                                  FAdd(base_proof.proofs[i],
                                       hiding.proof.w[i])]],
                          FAdd(MLEvaluate(evals, 0, z), hiding.evaluation)>>]

\* ZKMLCommit::open
ZKOpen(ck, evals, mask, z) ==
    LET base_proof == MLOpen(ck[1], evals, z)
        hiding == OpenMask(ck[2], mask, z)
    IN  IF base_proof.panic THEN base_proof
        ELSE IF hiding.panic THEN hiding
        ELSE [panic |-> FALSE,
              proof |-> <<[proofs |->
                              [i \in 1..Min(Len(base_proof.proofs),
                                            Len(hiding.proof.w)) |->
                                  FAdd(base_proof.proofs[i],
                                       hiding.proof.w[i])]],
                          hiding.evaluation>>]

-----------------------------------------------------------------------------
(* ZKMLCommit::check                                                       *)

\* the pairing e(a * B1, b * B2) = (a * b) * BT
Pairing(a, b) == FMul(a, b)

\* E::multi_pairing: the product of the pairings of the pairs; the two
\* lists are zipped with zip_eq, which panics on lists of unequal length
MultiPairing(lefts, rights) ==
    FSumRange([i \in 1..Len(lefts) |-> Pairing(lefts[i], rights[i])],
              1, Len(lefts))

\* the variant that leaves the scalar of the proof out of the left-hand
\* side
ZKCheckNoOffset(vk, comm, z, value, prf) ==
    LET vk_ml == vk[1]
        left == Pairing(FSub(comm.g_product, FMul(vk_ml.g, value)), vk_ml.h)
        h_mul == [i \in 1..Len(z) |-> FMul(vk_ml.h, z[i])]
    IN  IF Len(h_mul) < vk_ml.nv \/ Len(vk_ml.h_mask_random) < vk_ml.nv
        THEN Panic("index out of bounds")
        ELSE
        LET pairing_rights ==
                [i \in 1..vk_ml.nv |-> FSub(vk_ml.h_mask_random[i], h_mul[i])]
            pairing_lefts == prf[1].proofs
        IN  IF Len(pairing_lefts) # Len(pairing_rights)
            THEN Panic("zip_eq on iterators of unequal length")
            ELSE [panic |-> FALSE,
                  ok |-> left = MultiPairing(pairing_lefts, pairing_rights)]

\* the variant that pairs all the quotient commitments but the last
ZKCheckSkipsLast(vk, comm, z, value, prf) ==
    LET vk_ml == vk[1]
        vk_pst == vk[2]
        left == Pairing(FSub(FSub(comm.g_product, FMul(vk_ml.g, value)),
                             FMul(vk_pst.g, prf[2])),
                        vk_ml.h)
        h_mul == [i \in 1..Len(z) |-> FMul(vk_ml.h, z[i])]
    IN  IF Len(h_mul) < vk_ml.nv \/ Len(vk_ml.h_mask_random) < vk_ml.nv
        THEN Panic("index out of bounds")
        ELSE
        LET pairing_rights ==
                [i \in 1..(vk_ml.nv - 1) |->
                    FSub(vk_ml.h_mask_random[i], h_mul[i])]
            pairing_lefts == prf[1].proofs
        IN  IF Len(pairing_lefts) # vk_ml.nv
            THEN Panic("zip_eq on iterators of unequal length")
            ELSE [panic |-> FALSE,
                  ok |-> left = MultiPairing(
                                    SubSeq(pairing_lefts, 1, vk_ml.nv - 1),
                                    pairing_rights)]

\* the variant that leaves the claimed value out of the left-hand side
ZKCheckNoValue(vk, comm, z, value, prf) ==
    LET vk_ml == vk[1]
        vk_pst == vk[2]
        left == Pairing(FSub(comm.g_product, FMul(vk_pst.g, prf[2])), vk_ml.h)
        h_mul == [i \in 1..Len(z) |-> FMul(vk_ml.h, z[i])]
    IN  IF Len(h_mul) < vk_ml.nv \/ Len(vk_ml.h_mask_random) < vk_ml.nv
        THEN Panic("index out of bounds")
        ELSE
        LET pairing_rights ==
                [i \in 1..vk_ml.nv |-> FSub(vk_ml.h_mask_random[i], h_mul[i])]
            pairing_lefts == prf[1].proofs
        IN  IF Len(pairing_lefts) # Len(pairing_rights)
            THEN Panic("zip_eq on iterators of unequal length")
            ELSE [panic |-> FALSE,
                  ok |-> left = MultiPairing(pairing_lefts, pairing_rights)]

ZKCheck(vk, comm, z, value, prf) ==
    LET vk_ml == vk[1]
        vk_pst == vk[2]
        left == Pairing(FSub(FSub(comm.g_product, FMul(vk_ml.g, value)),
                             FMul(vk_pst.g, prf[2])),
                        vk_ml.h)
        h_mul == [i \in 1..Len(z) |-> FMul(vk_ml.h, z[i])]
    IN  IF Len(h_mul) < vk_ml.nv \/ Len(vk_ml.h_mask_random) < vk_ml.nv
        THEN Panic("index out of bounds")
        ELSE
        LET pairing_rights ==
                [i \in 1..vk_ml.nv |-> FSub(vk_ml.h_mask_random[i], h_mul[i])]
            pairing_lefts == prf[1].proofs
        IN  IF Len(pairing_lefts) # Len(pairing_rights)
            THEN Panic("zip_eq on iterators of unequal length")
            ELSE [panic |-> FALSE,
                  ok |-> left = MultiPairing(pairing_lefts, pairing_rights)]

-----------------------------------------------------------------------------
(* The mask-PC operations, each called once on a fresh generator.          *)

InitMaskPC ==
    /\ pc = "start"
    /\ rng \in 1..MaskSeeds
    /\ call = [op |-> "none"]
    /\ mask_out = None
    /\ special = None
    /\ srs = None
    /\ t = None
    /\ keys = None
    /\ polynomial = None
    /\ commitment = None
    /\ p_hat = None
    /\ point = None
    /\ proof = None
    /\ checked = None
    /\ wargs = None
    /\ transcript = None
    /\ challenge = None
    /\ subclaim = None
    /\ outcome = None
    /\ matrix = None
    /\ set_cells = None
    /\ num_sets = None
    /\ product = None
    /\ opcodes = None
    /\ scan = None
    /\ report = None

CallGenerateMask ==
    /\ pc = "start"
    /\ \E num_variables \in 0..MaxVars, deg \in 0..MaxDeg,
          sum_to_zero \in BOOLEAN :
          LET r == GenerateMaskPolynomial(rng, num_variables, deg, sum_to_zero)
          IN  /\ call' = [op |-> "generate_mask_polynomial",
                          num_variables |-> num_variables, deg |-> deg,
                          sum_to_zero |-> sum_to_zero, rng |-> rng]
              /\ mask_out' = r
              /\ rng' = r.rng
              /\ pc' = IF r.panic THEN "panic" ELSE "mask_done"
    /\ UNCHANGED <<special, srs, t, keys, polynomial, commitment, p_hat,
                   point, proof, checked>>
    /\ UNCHANGED wrapperVars
    /\ UNCHANGED matrixVars
    /\ UNCHANGED statsVars

CallSpecialSetup ==
    /\ pc = "start"
    /\ \E max_degree \in 0..MaxDeg,
          num_vars \in {None} \cup {Some(n) : n \in 0..MaxVars} :
          LET r == SpecialSetup(max_degree, num_vars, rng)
          IN  /\ call' = [op |-> "special_setup", max_degree |-> max_degree,
                          num_vars |-> num_vars, rng |-> rng]
              /\ special' = IF r.ok THEN [ok |-> TRUE, pp |-> r.pp] ELSE r
              /\ rng' = IF r.ok THEN r.rng ELSE rng
              /\ pc' = "special_setup_done"
    /\ UNCHANGED <<mask_out, srs, t, keys, polynomial, commitment, p_hat,
                   point, proof, checked>>
    /\ UNCHANGED wrapperVars
    /\ UNCHANGED matrixVars
    /\ UNCHANGED statsVars

NextMaskPC == CallGenerateMask \/ CallSpecialSetup

SpecMaskPC == InitMaskPC /\ [][NextMaskPC]_vars

-----------------------------------------------------------------------------
(* A commitment session: setup, trim, commit, open, check, as in test_zk,  *)
(* with the arguments of each call chosen freely.                          *)

\* the witness polynomials tried: tables of 2^n evaluations; the first is
\* 1, 2, 3, ... reduced into the field
PolyFamily(n) ==
    {[x \in 0..(Pow2(n) - 1) |-> (k * (x + 1) + (k - 1) * x * x) % Modulus] :
        k \in 1..NumPolys}

\* the proofs handed to check: the one open returned, or that proof with
\* one quotient commitment or the scalar replaced
ProofsFrom(prf) ==
    {prf}
    \cup {<<[proofs |-> [prf[1].proofs EXCEPT ![i] = e]], prf[2]>> :
             i \in 1..Len(prf[1].proofs), e \in Fld}
    \cup {<<prf[1], e>> : e \in Fld}

\* the points of another length handed to check: the opening point
\* without its last coordinate, or with one more coordinate
PointsFrom(z) ==
    {SubSeq(z, 1, Len(z) - 1)} \cup {Append(z, e) : e \in Fld}

\* the inputs (point, value, proof) handed to check: the opening point
\* with any value and the proof open returned, or with the evaluation of
\* the polynomial and a proof from ProofsFrom; or a point from PointsFrom
\* with the evaluation of the polynomial and the proof open returned
CheckInputs(evals, z, prf) ==
    {<<z, value, prf>> : value \in Fld}
    \cup {<<z, MLEvaluate(evals, 0, z), changed>> :
              changed \in ProofsFrom(prf)}
    \cup {<<zz, MLEvaluate(evals, 0, z), prf>> : zz \in PointsFrom(z)}

Init ==
    /\ pc = "start"
    /\ rng \in 1..Seeds
    /\ call = [op |-> "none"]
    /\ mask_out = None
    /\ special = None
    /\ srs = None
    /\ t = None
    /\ keys = None
    /\ polynomial = None
    /\ commitment = None
    /\ p_hat = None
    /\ point = None
    /\ proof = None
    /\ checked = None
    /\ wargs = None
    /\ transcript = None
    /\ challenge = None
    /\ subclaim = None
    /\ outcome = None
    /\ matrix = None
    /\ set_cells = None
    /\ num_sets = None
    /\ product = None
    /\ opcodes = None
    /\ scan = None
    /\ report = None

CallSetup ==
    /\ pc = "start"
    /\ \E num_vars \in 0..MaxVars, hiding_bound \in 0..MaxDeg :
          LET r == ZKSetup(num_vars, hiding_bound, rng)
          IN  /\ call' = [op |-> "setup",
                          setup |-> [num_vars |-> num_vars,
                                     hiding_bound |-> hiding_bound,
                                     rng |-> rng]]
              /\ srs' = IF r.panic THEN r ELSE r.param
              /\ t' = IF r.panic THEN None ELSE r.t
              /\ rng' = IF r.panic THEN rng ELSE r.rng
              /\ pc' = IF r.panic THEN "panic" ELSE "setup_done"
    /\ UNCHANGED <<mask_out, special, keys, polynomial, commitment, p_hat,
                   point, proof, checked>>
    /\ UNCHANGED wrapperVars
    /\ UNCHANGED matrixVars
    /\ UNCHANGED statsVars

CallTrim ==
    /\ pc = "setup_done"
    /\ \E num_variables \in 1..MaxVars, deg_for_mask \in 1..MaxDeg :
          LET r == ZKTrim(srs, num_variables, deg_for_mask)
          IN  /\ call' = [op |-> "trim",
                          trim |-> [num_variables |-> num_variables,
                                    deg_for_mask |-> deg_for_mask]] @@ call
              /\ keys' = r
              /\ pc' = IF r.panic THEN "panic" ELSE "trimmed"
    /\ UNCHANGED <<rng, mask_out, special, srs, t, polynomial, commitment,
                   p_hat, point, proof, checked>>
    /\ UNCHANGED wrapperVars
    /\ UNCHANGED matrixVars
    /\ UNCHANGED statsVars

CallCommit ==
    /\ pc = "trimmed"
    /\ \E evals \in PolyFamily(keys.ck[1].nv), hiding_bound \in 1..MaxDeg,
          mask_num_var \in {None} \cup {Some(k) : k \in 1..MaxVars} :
          LET r == ZKCommit(keys.ck, evals, hiding_bound, mask_num_var, rng)
          IN  /\ call' = [op |-> "commit",
                          commit |-> [hiding_bound |-> hiding_bound,
                                      mask_num_var |-> mask_num_var,
                                      rng |-> rng]] @@ call
              /\ polynomial' = evals
              /\ commitment' = IF r.panic THEN r ELSE r.commitment
              /\ p_hat' = IF r.panic THEN None ELSE r.p_hat
              /\ rng' = IF r.panic THEN rng ELSE r.rng
              /\ pc' = IF r.panic THEN "panic" ELSE "committed"
    /\ UNCHANGED <<mask_out, special, srs, t, keys, point, proof, checked>>
    /\ UNCHANGED wrapperVars
    /\ UNCHANGED matrixVars
    /\ UNCHANGED statsVars

\* the points the caller opens at: any point for the first opening of a
\* commitment, and for a later opening the point that follows the last one
\* (every coordinate plus one)
OpenPoints ==
    IF pc = "committed"
    THEN [1..keys.ck[1].nv -> Fld]
    ELSE {[i \in 1..keys.ck[1].nv |-> FAdd(point[i], 1)]}

\* open borrows the polynomial and the mask witness (zk.rs:649-651), so it
\* can be called again after it has returned
CallOpen ==
    /\ pc \in {"committed", "opened"}
    /\ \E z \in OpenPoints :
          LET r == ZKOpen(keys.ck, polynomial, p_hat, z)
          IN  /\ call' = [op |-> "open"] @@ call
              /\ point' = z
              /\ proof' = IF r.panic THEN r ELSE r.proof
              /\ pc' = IF r.panic THEN "panic" ELSE "opened"
    /\ UNCHANGED <<rng, mask_out, special, srs, t, keys, polynomial,
                   commitment, p_hat, checked>>
    /\ UNCHANGED wrapperVars
    /\ UNCHANGED matrixVars
    /\ UNCHANGED statsVars

CallCheck ==
    /\ pc = "opened"
    /\ \E input \in CheckInputs(polynomial, point, proof) :
          LET r == ZKCheck(keys.vk, commitment, input[1], input[2], input[3])
          IN  /\ call' = [op |-> "check"] @@ call
              /\ checked' = [point |-> input[1], value |-> input[2],
                             proof |-> input[3], result |-> r]
              /\ pc' = IF r.panic THEN "panic" ELSE "checked"
    /\ UNCHANGED <<rng, mask_out, special, srs, t, keys, polynomial,
                   commitment, p_hat, point, proof>>
    /\ UNCHANGED wrapperVars
    /\ UNCHANGED matrixVars
    /\ UNCHANGED statsVars

Next == CallSetup \/ CallTrim \/ CallCommit \/ CallOpen \/ CallCheck

Spec == Init /\ [][Next]_vars

-----------------------------------------------------------------------------
(* Properties of the mask polynomial generator.                            *)

\* the points of the Boolean hypercube {0,1}^k
Hypercube(k) == [1..k -> {0, 1}]

\* the sum of p over the Boolean hypercube of its variables
HypercubeSum(p) ==
    FSumSet([x \in Hypercube(p.num_vars) |-> PolyEval(p, x)],
            Hypercube(p.num_vars))

\* C5: a mask polynomial generated with sum_to_zero over k >= 1 variables
\* sums to zero over the 2^k points of the Boolean hypercube, whatever the
\* degree bound and the coefficients drawn.
MaskSumsToZero ==
    (pc = "mask_done" /\ call.sum_to_zero /\ call.num_variables >= 1)
        => HypercubeSum(mask_out.poly) = 0

\* a generated mask with sum_to_zero, two variables, degree 2, and a
\* coefficient of degree 2 that is not zero
MaskSumsToZeroReached ==
    /\ pc = "mask_done"
    /\ call.sum_to_zero
    /\ call.num_variables = 2
    /\ call.deg = 2
    /\ << <<1, 2>> >> \in DOMAIN mask_out.poly.terms
    /\ ConstTerm \in DOMAIN mask_out.poly.terms

\* C6: every term of a generated mask polynomial has at most one variable,
\* a variable of the polynomial, and its power is at most deg.
MaskSeparable ==
    pc = "mask_done" =>
        /\ mask_out.poly.num_vars = call.num_variables
        /\ \A term \in DOMAIN mask_out.poly.terms :
              /\ Len(term) <= 1
              /\ \A i \in 1..Len(term) :
                    /\ term[i][1] < call.num_variables
                    /\ term[i][2] <= call.deg

\* a generated mask with a term of the full degree in its second variable
MaskSeparableReached ==
    /\ pc = "mask_done"
    /\ call.num_variables = 2
    /\ call.deg = 2
    /\ {<< <<0, 1>> >>, << <<1, 2>> >>} \subseteq DOMAIN mask_out.poly.terms

-----------------------------------------------------------------------------
(* Properties of special_setup.                                            *)

\* C7: special_setup returns InvalidNumberOfVariables when num_vars is
\* absent or below 1 (also when the degree is zero as well), DegreeIsZero
\* when num_vars is at least 1 and max_degree is below 1, and parameters,
\* for the requested dimensions, exactly when both are at least 1; an error
\* carries no parameters.
SpecialSetupErrors ==
    pc = "special_setup_done" =>
        LET nv == call.num_vars
            bad_nv == ~nv.some \/ nv.val < 1
        IN  /\ bad_nv => special = Err("InvalidNumberOfVariables")
            /\ (~bad_nv /\ call.max_degree < 1) => special = Err("DegreeIsZero")
            /\ special.ok <=> (~bad_nv /\ call.max_degree >= 1)
            /\ special.ok => /\ special.pp.num_vars = nv.val
                             /\ special.pp.max_degree = call.max_degree
                             /\ Len(special.pp.beta_h) = nv.val
            /\ ~special.ok => "pp" \notin DOMAIN special

\* both error paths and the success path have been taken
SpecialSetupErrorsReached ==
    /\ pc = "special_setup_done"
    /\ call.num_vars = Some(0)
    /\ call.max_degree = 0
    /\ special = Err("InvalidNumberOfVariables")

-----------------------------------------------------------------------------
(* Properties of a commitment session.                                     *)

\* the trapdoor scalars of the variables the trimmed keys keep
KeptTrapdoor ==
    SubSeq(t, Len(t) - call.trim.num_variables + 1, Len(t))

\* f(p): the evaluation of the committed polynomial at the opening point
BaseEvaluation == MLEvaluate(polynomial, 0, point)

\* check has returned a verdict on the opening point and the proof open
\* returned
CheckedHonestProof ==
    /\ call.op = "check"
    /\ checked.point = point
    /\ checked.proof = proof

\* check returns true on the value f(p) and the proof open returned
HonestAccepted ==
    LET r == ZKCheck(keys.vk, commitment, point, BaseEvaluation, proof)
    IN  ~r.panic /\ r.ok

\* C1: with keys trimmed to n <= N variables, a polynomial of n variables
\* committed with a mask over its own variables opens at every point, and
\* check returns true on the value f(p) and the proof returned by open,
\* whose scalar is the mask evaluation.
CompletenessAsTested ==
    /\ (call.op = "open" /\ ~call.commit.mask_num_var.some) => pc = "opened"
    /\ (CheckedHonestProof /\ ~call.commit.mask_num_var.some
            /\ checked.value = BaseEvaluation)
          => (pc = "checked" /\ checked.result.ok)

\* an accepted check on keys trimmed from 2 to 1 variable, and the mask
\* does not vanish at the point
CompletenessAsTestedReached ==
    /\ pc = "checked"
    /\ CheckedHonestProof
    /\ ~call.commit.mask_num_var.some
    /\ checked.value = BaseEvaluation
    /\ call.trim.num_variables < call.setup.num_vars
    /\ PolyDegree(p_hat) = 2
    /\ proof[2] # 0
    /\ checked.result.ok

\* C2 as stated: check returns true on the value f(p) + mask(p) and the
\* proof returned by open.
CompletenessOnSum ==
    (CheckedHonestProof /\ ~call.commit.mask_num_var.some
        /\ checked.value = FAdd(BaseEvaluation, PolyEval(p_hat, point)))
      => (pc = "checked" /\ checked.result.ok)

\* C2 as amended: on the value f(p) + mask(p) and the proof returned by
\* open, check returns true exactly when mask(p) = 0, that is when the
\* value is f(p); the mask evaluation is the scalar of the proof.
CompletenessOnSumOnlyIfMaskVanishes ==
    (CheckedHonestProof /\ ~call.commit.mask_num_var.some
        /\ checked.value = FAdd(BaseEvaluation, PolyEval(p_hat, point)))
      => /\ pc = "checked"
         /\ proof[2] = PolyEval(p_hat, point)
         /\ checked.result.ok <=> (PolyEval(p_hat, point) = 0)

\* check has rejected the value f(p) + mask(p) for a mask that does not
\* vanish at the point
CompletenessOnSumRejected ==
    /\ pc = "checked"
    /\ CheckedHonestProof
    /\ ~call.commit.mask_num_var.some
    /\ PolyEval(p_hat, point) # 0
    /\ checked.value = FAdd(BaseEvaluation, PolyEval(p_hat, point))
    /\ ~checked.result.ok

\* C3: where check accepts f(p) and the proof returned by open, it
\* rejects every other value with that proof, and rejects f(p) with that
\* proof once its scalar is replaced by another one.
SoundnessChangedEvaluation ==
    (call.op = "check" /\ checked.point = point /\ HonestAccepted) =>
        /\ (checked.proof = proof /\ checked.value # BaseEvaluation)
              => (pc = "checked" /\ ~checked.result.ok)
        /\ (checked.proof[1] = proof[1] /\ checked.proof[2] # proof[2]
                /\ checked.value = BaseEvaluation)
              => (pc = "checked" /\ ~checked.result.ok)

\* check has rejected a changed value, the proof untouched
SoundnessChangedEvaluationReached ==
    /\ pc = "checked"
    /\ HonestAccepted
    /\ checked.point = point
    /\ checked.proof = proof
    /\ checked.value # BaseEvaluation
    /\ call.trim.num_variables = 2
    /\ ~checked.result.ok

\* the quotient commitments of the checked proof differ from those open
\* returned at index i and nowhere else
OnlyQuotientChanged(i) ==
    /\ checked.point = point
    /\ checked.proof[2] = proof[2]
    /\ Len(checked.proof[1].proofs) = Len(proof[1].proofs)
    /\ i \in 1..Len(proof[1].proofs)
    /\ checked.proof[1].proofs[i] # proof[1].proofs[i]
    /\ \A j \in 1..Len(proof[1].proofs) :
          j # i => checked.proof[1].proofs[j] = proof[1].proofs[j]

\* C4 as stated: where check accepts f(p) and the proof returned by open,
\* it rejects f(p) with that proof once one quotient commitment is
\* replaced by another group element.
SoundnessChangedQuotient ==
    (call.op = "check" /\ HonestAccepted /\ checked.value = BaseEvaluation)
      => \A i \in 1..call.trim.num_variables :
            OnlyQuotientChanged(i) => (pc = "checked" /\ ~checked.result.ok)

\* C4 as amended: check then rejects exactly when the point differs from
\* the trapdoor in coordinate i; where point[i] is the trapdoor scalar of
\* variable i the quotient commitment i is paired with the identity and
\* check still returns true.
SoundnessChangedQuotientOffTrapdoor ==
    (call.op = "check" /\ HonestAccepted /\ checked.value = BaseEvaluation)
      => \A i \in 1..call.trim.num_variables :
            OnlyQuotientChanged(i) =>
                /\ pc = "checked"
                /\ checked.result.ok <=> (point[i] = KeptTrapdoor[i])

\* check has rejected a proof whose second quotient commitment was
\* replaced
SoundnessChangedQuotientReached ==
    /\ pc = "checked"
    /\ HonestAccepted
    /\ checked.value = BaseEvaluation
    /\ OnlyQuotientChanged(2)
    /\ point[2] # KeptTrapdoor[2]
    /\ ~checked.result.ok

\* C8 as stated: setup returns the error InvalidNumberOfVariables when
\* num_vars < 1 and the error DegreeIsZero when hiding_bound < 1, and no
\* SRS in those cases.
SetupReturnsErrors ==
    call.op = "setup" =>
        /\ call.setup.num_vars < 1 => srs = Err("InvalidNumberOfVariables")
        /\ (call.setup.num_vars >= 1 /\ call.setup.hiding_bound < 1)
              => srs = Err("DegreeIsZero")

\* C8 as amended: setup fails under the conditions of the mask-PC setup,
\* by a panic and not by an error value: the assertion "constant
\* polynomial not supported" when num_vars < 1, the unwrap of DegreeIsZero
\* when num_vars >= 1 and hiding_bound < 1; it returns an SRS exactly when
\* both are at least 1.
SetupPanics ==
    call.op = "setup" =>
        /\ call.setup.num_vars < 1
              => (pc = "panic" /\ srs = Panic("constant polynomial not supported"))
        /\ (call.setup.num_vars >= 1 /\ call.setup.hiding_bound < 1)
              => (pc = "panic" /\ srs = Panic("DegreeIsZero"))
        /\ (call.setup.num_vars >= 1 /\ call.setup.hiding_bound >= 1)
              => /\ pc = "setup_done"
                 /\ srs[1].num_vars = call.setup.num_vars
                 /\ srs[2].num_vars = call.setup.num_vars
                 /\ srs[2].max_degree = call.setup.hiding_bound
        /\ pc = "panic" => t = None

\* setup has panicked on a hiding bound of zero
SetupPanicsReached ==
    /\ pc = "panic"
    /\ call.op = "setup"
    /\ call.setup.num_vars = 2
    /\ call.setup.hiding_bound = 0
    /\ srs = Panic("DegreeIsZero")

\* the coefficient of a term of p, zero for a term p does not have
Coefficient(p, term) ==
    IF term \in DOMAIN p.terms THEN p.terms[term] ELSE 0

\* C9: commit returns the group sum of the base commitment to the
\* polynomial and the mask-PC commitment to the mask it returns, which is
\* g * f(t) + g' * mask(t) at the trapdoor t; the mask is made of the
\* coefficients drawn, none adjusted, over mask_num_var variables if given
\* and the variables of the polynomial otherwise; nv is the number of
\* variables of the polynomial.
CommitIsBasePlusMask ==
    (call.op = "commit" /\ pc = "committed") =>
        LET a == call.commit
            n == Log2(TableLen(polynomial))
            k == IF a.mask_num_var.some THEN a.mask_num_var.val ELSE n
            d == a.hiding_bound
        IN  /\ commitment.nv = n
            /\ p_hat.num_vars = k
            /\ \A var \in 0..(k - 1) : \A degree \in 1..d :
                  Coefficient(p_hat, << <<var, degree>> >>)
                      = FRand(a.rng, var * (d + 1) + degree)
            /\ Coefficient(p_hat, ConstTerm)
                  = FSumRange([var \in 0..(k - 1) |->
                                  FRand(a.rng, var * (d + 1))], 0, k - 1)
            /\ rng = RngAdv(a.rng, k * (d + 1))
            /\ commitment.g_product
                  = FAdd(MLCommit(keys.ck[1], polynomial),
                         CommitMask(keys.ck[2], p_hat).comm)
            /\ commitment.g_product
                  = FAdd(FMul(srs[1].g, MLEvaluate(polynomial, 0, KeptTrapdoor)),
                         FMul(keys.vk[2].g, PolyEval(p_hat, KeptTrapdoor)))

\* a commitment to a polynomial of two variables whose mask, over the one
\* variable the caller asked for, has a commitment that is not the identity
CommitIsBasePlusMaskReached ==
    /\ pc = "committed"
    /\ call.commit.mask_num_var = Some(1)
    /\ commitment.nv = 2
    /\ PolyDegree(p_hat) = 2
    /\ CommitMask(keys.ck[2], p_hat).comm # 0

-----------------------------------------------------------------------------
(* Properties of open, check and trim.                                     *)

\* C11 as stated: the scalar returned by open is the evaluation of the
\* polynomial at the point plus the evaluation of the mask at the point.
OpenScalarIsSum ==
    (call.op = "open" /\ pc = "opened") =>
        proof[2] = FAdd(BaseEvaluation, PolyEval(p_hat, point))

\* C11 as amended: the scalar returned by open is the evaluation of the
\* mask at the point alone; the evaluation of the polynomial is not part
\* of it.
OpenScalarIsMaskEvaluation ==
    (call.op = "open" /\ pc = "opened") =>
        proof[2] = PolyEval(p_hat, point)

\* an opening at a point where neither the polynomial nor the mask
\* vanishes
OpenScalarIsMaskEvaluationReached ==
    /\ call.op = "open"
    /\ pc = "opened"
    /\ Len(point) = 2
    /\ BaseEvaluation # 0
    /\ PolyEval(p_hat, point) # 0
    /\ proof[2] = PolyEval(p_hat, point)

\* C12: the proof returned by open has one quotient commitment per
\* variable of the polynomial, whatever mask_num_var commit was called
\* with.
OpenProofLength ==
    (call.op = "open" /\ pc = "opened") =>
        Len(proof[1].proofs) = Log2(TableLen(polynomial))

\* C17: check fails when the length of the point differs from the number
\* of variables of the verifier key, be the point shorter or longer.
CheckFailsOnMismatch ==
    (call.op = "check" /\ Len(checked.point) # keys.vk[1].nv) =>
        (pc = "panic" /\ checked.result.panic)

\* C19: trim to n of N variables keeps the last n slices of powers_of_g,
\* powers_of_h and h_mask; the mask committer key has the constant term
\* and, for each variable v >= N - n and each degree up to deg_for_mask,
\* the term of variable v - (N - n) and that degree with the group element
\* the SRS has for variable v, and no other term.
TrimKeepsLastSlices ==
    (call.op = "trim" /\ pc = "trimmed") =>
        LET N == call.setup.num_vars
            n == call.trim.num_variables
            d == call.trim.deg_for_mask
            to_reduce == N - n
            ck1 == keys.ck[1]
            ck2 == keys.ck[2]
        IN  /\ Len(ck1.powers_of_g) = n
            /\ Len(ck1.powers_of_h) = n
            /\ Len(keys.vk[1].h_mask_random) = n
            /\ \A i \in 1..n :
                  /\ ck1.powers_of_g[i] = srs[1].powers_of_g[to_reduce + i]
                  /\ ck1.powers_of_h[i] = srs[1].powers_of_h[to_reduce + i]
                  /\ keys.vk[1].h_mask_random[i] = srs[1].h_mask[to_reduce + i]
            /\ DOMAIN ck2.powers_of_g
                  = {ConstTerm} \cup {<< <<v, e>> >> : v \in 0..(n - 1), e \in 1..d}
            /\ ck2.powers_of_g[ConstTerm] = srs[2].powers_of_g[ConstTerm]
            /\ \A v \in to_reduce..(N - 1) : \A e \in 1..d :
                  ck2.powers_of_g[<< <<v - to_reduce, e>> >>]
                      = srs[2].powers_of_g[<< <<v, e>> >>]

\* keys trimmed from two variables to one, where the SRS has different
\* group elements for the two variables
TrimKeepsLastSlicesReached ==
    /\ call.op = "trim"
    /\ pc = "trimmed"
    /\ call.setup.num_vars = 2
    /\ call.trim.num_variables = 1
    /\ srs[2].powers_of_g[<< <<0, 1>> >>] # srs[2].powers_of_g[<< <<1, 1>> >>]
    /\ keys.ck[2].powers_of_g[<< <<0, 1>> >>] = srs[2].powers_of_g[<< <<1, 1>> >>]

\* C20: the keys returned by trim agree on the number of variables: the
\* base-scheme and the mask-PC components of both keys are for the
\* requested n variables, and the trapdoor element i of the mask verifier
\* key is the one of variable i of the mask committer key, that is
\* e(ck2.powers_of_g[X_i], h) = e(g, beta_h[i]).
TrimKeysAgree ==
    (call.op = "trim" /\ pc = "trimmed") =>
        LET n == call.trim.num_variables
            ck2 == keys.ck[2]
            vk2 == keys.vk[2]
        IN  /\ keys.ck[1].nv = n
            /\ keys.vk[1].nv = n
            /\ ck2.num_vars = n
            /\ vk2.num_vars = n
            /\ Len(vk2.beta_h) = n
            /\ \A i \in 1..n :
                  Pairing(ck2.powers_of_g[<< <<i - 1, 1>> >>], vk2.h)
                      = Pairing(vk2.g, vk2.beta_h[i])

-----------------------------------------------------------------------------
(* The transcript (crate::transcript::Transcript): the log of the calls    *)
(* made on it, the hash state that absorbs what is appended, and the       *)
(* labels for which encoding the value reports an error.                   *)

TranscriptNew(failing) == [log |-> << >>, state |-> 1, failing |-> failing]

\* the hash state after absorbing the numbers xs in order
RECURSIVE Absorb(_, _)
Absorb(state, xs) ==
    IF xs = << >> THEN state
    ELSE Absorb((RngMul * state + Head(xs) + 1) % RngMod, Tail(xs))

\* append_serializable(label, value): value is the sequence of scalars and
\* group elements of the encoded value; on an error nothing is absorbed
AppendSerializable(tr, label, value) ==
    IF label \in tr.failing
    THEN [ok |-> FALSE,
          tr |-> [tr EXCEPT !.log = Append(@, [op |-> "append",
                                               label |-> label,
                                               value |-> value,
                                               ok |-> FALSE])]]
    ELSE [ok |-> TRUE,
          tr |-> [tr EXCEPT !.log = Append(@, [op |-> "append",
                                               label |-> label,
                                               value |-> value,
                                               ok |-> TRUE]),
                            !.state = Absorb(@, value)]]

\* get_scalar_challenge(label): a scalar that depends on everything
\* absorbed so far; deriving it moves the state on
GetScalarChallenge(tr, label) ==
    [challenge |-> tr.state % Modulus,
     tr |-> [tr EXCEPT !.log = Append(@, [op |-> "challenge",
                                          label |-> label]),
                       !.state = Absorb(@, <<Modulus>>)]]

-----------------------------------------------------------------------------
(* The sumcheck rounds (MLSumcheck).  A round message is the sequence of   *)
(* the coefficients of the round polynomial, constant first.               *)

\* the value at x of the polynomial with coefficients coeffs
UniEval(coeffs, x) ==
    FSumRange([e \in 0..(Len(coeffs) - 1) |->
                  FMul(coeffs[e + 1], FPow(x, e))],
              0, Len(coeffs) - 1)

\* the rounds i.. of the verifier: each absorbs the message, derives the
\* challenge of the round and checks the message against the running sum
RECURSIVE SumcheckRounds(_, _, _, _)
SumcheckRounds(tr, msgs, i, expected) ==
    IF i > Len(msgs)
    THEN [ok |-> TRUE, point |-> << >>, expected |-> expected, tr |-> tr]
    ELSE LET absorbed == AppendSerializable(tr, "round", msgs[i]).tr
             derived == GetScalarChallenge(absorbed, "round")
             r == derived.challenge
             rest == SumcheckRounds(derived.tr, msgs, i + 1,
                                    UniEval(msgs[i], r))
         IN  [ok |-> /\ FAdd(UniEval(msgs[i], 0), UniEval(msgs[i], 1))
                            = expected
                     /\ rest.ok,
              point |-> <<r>> \o rest.point,
              expected |-> rest.expected,
              tr |-> rest.tr]

\* MLSumcheck::verify_as_subprotocol_zk: the subclaim, or an error
VerifyAsSubprotocolZk(tr, poly_info, claimed_sum, msgs, chal, g_value) ==
    LET rounds == SumcheckRounds(tr, msgs, 1, claimed_sum)
        degree_ok == \A i \in 1..Len(msgs) :
                        Len(msgs[i]) <= poly_info.max_degree + 1
    IN  IF Len(msgs) # poly_info.num_variables \/ ~degree_ok \/ ~rounds.ok
        THEN [ok |-> FALSE,
              err |-> "Prover message is not consistent with the claim",
              tr |-> rounds.tr]
        ELSE [ok |-> TRUE,
              subclaim |-> [point |-> rounds.point,
                            expected_evaluation |->
                                FSub(rounds.expected, FMul(chal, g_value))],
              tr |-> rounds.tr]

\* the round polynomial of f + rho * g in the variable after prefix: the
\* variables before it fixed to prefix, those after it summed over {0,1}
RoundPoly(f, g, rho, prefix, degree) ==
    LET var == Len(prefix)
        k == g.num_vars - var - 1
        H(x) == FAdd(MLEvaluate(f, 0, x), FMul(rho, PolyEval(g, x)))
        F(x) == MLEvaluate(f, 0, x)
        at0 == FSumSet([b \in Hypercube(k) |-> H(prefix \o <<0>> \o b)],
                       Hypercube(k))
        lin == FSumSet([b \in Hypercube(k) |->
                           FSub(F(prefix \o <<1>> \o b),
                                F(prefix \o <<0>> \o b))],
                       Hypercube(k))
    IN  [j \in 1..(degree + 1) |->
            IF j = 1 THEN at0
            ELSE FAdd(IF j = 2 THEN lin ELSE 0,
                      FMul(Pow2(k) % Modulus,
                           FMul(rho, Coefficient(g, << <<var, j - 1>> >>))))]

\* the rounds of the prover after prefix, on its own transcript
RECURSIVE ProveRounds(_, _, _, _, _, _)
ProveRounds(tr, f, g, rho, degree, prefix) ==
    IF Len(prefix) = g.num_vars
    THEN [msgs |-> << >>, point |-> prefix, tr |-> tr]
    ELSE LET msg == RoundPoly(f, g, rho, prefix, degree)
             absorbed == AppendSerializable(tr, "round", msg).tr
             derived == GetScalarChallenge(absorbed, "round")
             rest == ProveRounds(derived.tr, f, g, rho, degree,
                                 Append(prefix, derived.challenge))
         IN  [msgs |-> <<msg>> \o rest.msgs, point |-> rest.point,
              tr |-> rest.tr]

\* the proof of the prover for the sum of f over the hypercube: a mask g
\* that sums to zero, committed under keys of its own, bound into the
\* transcript before the challenge rho, the rounds for f + rho * g, and the
\* opening of g at the point of the rounds
HonestProof(s, n, deg, f, failing) ==
    LET sp == SpecialSetup(deg, Some(n), s)
        tk == PST13Trim(sp.pp, deg)
        g == GenerateMaskPolynomial(sp.rng, n, deg, TRUE).poly
        g_commit == CommitMask(tk.ck, g).comm
        bound == AppendSerializable(TranscriptNew(failing), "g_commit",
                                    <<g_commit>>).tr
        derived == GetScalarChallenge(bound, "r1")
        rounds == ProveRounds(derived.tr, f, g, derived.challenge, deg, << >>)
        opened == SpecialOpen(tk.ck, g, rounds.point)
    IN  [mask_vk |-> tk.vk,
         claimed_sum |-> FSumRange(f, 0, Pow2(n) - 1),
         proof |-> [g_commit |-> g_commit,
                    sumcheck_proof |-> rounds.msgs,
                    poly_info |-> [num_variables |-> n, max_degree |-> deg],
                    g_proof |-> [w |-> opened.w, random_v |-> None],
                    g_value |-> PolyEval(g, rounds.point)]]

\* the arguments handed to the wrapper: the proof and the sum of the
\* prover, or those with one component replaced by another value
WrapperInputs(h) ==
    LET prf == h.proof
        with(x) == [proof |-> x, claimed_sum |-> h.claimed_sum]
    IN  {with(prf)}
        \cup {with([prf EXCEPT !.g_commit = e]) : e \in Fld \ {prf.g_commit}}
        \cup {with([prf EXCEPT !.g_value = e]) : e \in Fld \ {prf.g_value}}
        \cup {with([prf EXCEPT !.g_proof.w[i] = e]) :
                 i \in 1..Len(prf.g_proof.w), e \in Fld}
        \cup {with([prf EXCEPT !.sumcheck_proof[i][1] = e]) :
                 i \in 1..Len(prf.sumcheck_proof), e \in Fld}
        \cup {[proof |-> prf, claimed_sum |-> e] : e \in Fld}

-----------------------------------------------------------------------------
(* zk_sumcheck_verifier_wrapper                                            *)

\* MarlinPST13::check of one commitment without degree bound against one
\* value
PST13Check(vk, comm, z, value, prf) ==
    LET inner == FSub(comm, FMul(vk.g, value))
        lhs == Pairing(IF prf.random_v.some
                       THEN FSub(inner, FMul(vk.gamma_g, prf.random_v.val))
                       ELSE inner,
                       vk.h)
        rhs == FSumRange([j \in 1..Len(prf.w) |->
                             Pairing(prf.w[j],
                                     FSub(vk.beta_h[j], FMul(vk.h, z[j])))],
                         1, Len(prf.w))
    IN  [ok |-> TRUE, flag |-> lhs = rhs]

\* the values the wrapper returns
Accept(sc) == [ok |-> TRUE, subclaim |-> sc]
Reject(chain) == [ok |-> FALSE, error |-> chain]

\* the variant that does not absorb the mask commitment
BindNothing(tr, prf) == tr

\* the transcript after `let _ = transcript.append_serializable(..)`: the
\* result of the call is dropped
Bind(tr, prf) == AppendSerializable(tr, "g_commit", <<prf.g_commit>>).tr

\* the challenge r1 and the transcript after deriving it
Challenge(tr) == GetScalarChallenge(tr, "r1")

\* the variant that returns the error of the round verifier as it is
RoundCheckNoContext(tr, prf, claimed_sum, chal) ==
    LET r == VerifyAsSubprotocolZk(tr, prf.poly_info, claimed_sum,
                                   prf.sumcheck_proof, chal, prf.g_value)
    IN  IF r.ok THEN r
        ELSE [ok |-> FALSE, tr |-> r.tr, result |-> Reject(<<r.err>>)]

\* the round verifier and the `?` on its result
RoundCheck(tr, prf, claimed_sum, chal) ==
    LET r == VerifyAsSubprotocolZk(tr, prf.poly_info, claimed_sum,
                                   prf.sumcheck_proof, chal, prf.g_value)
    IN  IF r.ok THEN r
        ELSE [ok |-> FALSE, tr |-> r.tr,
              result |-> Reject(<<"while verifying zk sumcheck", r.err>>)]

\* the variant that does not look at the flag
MaskOpeningCheckIgnoresFlag(mask_vk, prf, sc) ==
    LET checked_mask == PST13Check(mask_vk, prf.g_commit, sc.point,
                                   prf.g_value, prf.g_proof)
    IN  IF ~checked_mask.ok
        THEN Reject(<<"while verifying PCS openning", checked_mask.err>>)
        ELSE Accept(sc)

\* the variant that tests the flag the wrong way round
MaskOpeningCheckFlagInverted(mask_vk, prf, sc) ==
    LET checked_mask == PST13Check(mask_vk, prf.g_commit, sc.point,
                                   prf.g_value, prf.g_proof)
    IN  IF ~checked_mask.ok
        THEN Reject(<<"while verifying PCS openning", checked_mask.err>>)
        ELSE IF checked_mask.flag THEN Reject(<<"PCS openning failed">>)
        ELSE Accept(sc)

\* the check of the mask opening, the `?` on its result and the test of
\* the flag
MaskOpeningCheck(mask_vk, prf, sc) ==
    LET checked_mask == PST13Check(mask_vk, prf.g_commit, sc.point,
                                   prf.g_value, prf.g_proof)
    IN  IF ~checked_mask.ok
        THEN Reject(<<"while verifying PCS openning", checked_mask.err>>)
        ELSE IF ~checked_mask.flag THEN Reject(<<"PCS openning failed">>)
        ELSE Accept(sc)

\* the value the wrapper returns on a transcript tr
ZkSumcheckVerifierWrapper(mask_vk, prf, tr, claimed_sum) ==
    LET derived == Challenge(Bind(tr, prf))
        round == RoundCheck(derived.tr, prf, claimed_sum, derived.challenge)
    IN  IF ~round.ok THEN round.result
        ELSE MaskOpeningCheck(mask_vk, prf, round.subclaim)

-----------------------------------------------------------------------------
(* One call of the wrapper, statement by statement, on a fresh transcript. *)

InitWrapper ==
    /\ pc = "start"
    /\ rng \in 1..Seeds
    /\ call = [op |-> "none"]
    /\ mask_out = None
    /\ special = None
    /\ srs = None
    /\ t = None
    /\ keys = None
    /\ polynomial = None
    /\ commitment = None
    /\ p_hat = None
    /\ point = None
    /\ proof = None
    /\ checked = None
    /\ wargs = None
    /\ transcript = None
    /\ challenge = None
    /\ subclaim = None
    /\ outcome = None
    /\ matrix = None
    /\ set_cells = None
    /\ num_sets = None
    /\ product = None
    /\ opcodes = None
    /\ scan = None
    /\ report = None

CallWrapper ==
    /\ pc = "start"
    /\ \E n \in 1..MaxVars, deg \in 1..MaxDeg,
          failing \in {{}, {"g_commit"}} :
          \E f \in PolyFamily(n) :
             LET h == HonestProof(rng, n, deg, f, failing)
             IN  \E input \in WrapperInputs(h) :
                    /\ call' = [op |-> "zk_sumcheck_verifier_wrapper",
                                honest |-> h]
                    /\ wargs' = [mask_vk |-> h.mask_vk,
                                 proof |-> input.proof,
                                 claimed_sum |-> input.claimed_sum]
                    /\ transcript' = TranscriptNew(failing)
    /\ pc' = "entered"
    /\ UNCHANGED <<rng, challenge, subclaim, outcome>>
    /\ UNCHANGED sessionVars
    /\ UNCHANGED matrixVars
    /\ UNCHANGED statsVars

StepBind ==
    /\ pc = "entered"
    /\ transcript' = Bind(transcript, wargs.proof)
    /\ pc' = "bound"
    /\ UNCHANGED <<rng, call, wargs, challenge, subclaim, outcome>>
    /\ UNCHANGED sessionVars
    /\ UNCHANGED matrixVars
    /\ UNCHANGED statsVars

StepChallenge ==
    /\ pc = "bound"
    /\ LET derived == Challenge(transcript)
       IN  /\ challenge' = Some(derived.challenge)
           /\ transcript' = derived.tr
    /\ pc' = "challenged"
    /\ UNCHANGED <<rng, call, wargs, subclaim, outcome>>
    /\ UNCHANGED sessionVars
    /\ UNCHANGED matrixVars
    /\ UNCHANGED statsVars

StepRoundCheck ==
    /\ pc = "challenged"
    /\ LET round == RoundCheck(transcript, wargs.proof, wargs.claimed_sum,
                               challenge.val)
       IN  /\ transcript' = round.tr
           /\ subclaim' = IF round.ok THEN Some(round.subclaim) ELSE subclaim
           /\ outcome' = IF round.ok THEN outcome ELSE round.result
           /\ pc' = IF round.ok THEN "round_checked" ELSE "returned"
    /\ UNCHANGED <<rng, call, wargs, challenge>>
    /\ UNCHANGED sessionVars
    /\ UNCHANGED matrixVars
    /\ UNCHANGED statsVars

StepMaskCheck ==
    /\ pc = "round_checked"
    /\ outcome' = MaskOpeningCheck(wargs.mask_vk, wargs.proof, subclaim.val)
    /\ pc' = "returned"
    /\ UNCHANGED <<rng, call, wargs, transcript, challenge, subclaim>>
    /\ UNCHANGED sessionVars
    /\ UNCHANGED matrixVars
    /\ UNCHANGED statsVars

NextWrapper ==
    CallWrapper \/ StepBind \/ StepChallenge \/ StepRoundCheck \/ StepMaskCheck

SpecWrapper == InitWrapper /\ [][NextWrapper]_vars

-----------------------------------------------------------------------------
(* Properties of zk_sumcheck_verifier_wrapper.                             *)

\* the wrapper has been called
InWrapper == pc \in {"entered", "bound", "challenged", "round_checked",
                     "returned"}

\* the positions in the log of the transcript of the call that appends
\* g_commit, of the derivation of r1 and of the calls of the rounds
BindAt ==
    {i \in 1..Len(transcript.log) :
        /\ transcript.log[i].op = "append"
        /\ transcript.log[i].label = "g_commit"
        /\ transcript.log[i].value = <<wargs.proof.g_commit>>}
ChallengeAt ==
    {i \in 1..Len(transcript.log) :
        transcript.log[i] = [op |-> "challenge", label |-> "r1"]}
RoundsAt ==
    {i \in 1..Len(transcript.log) : transcript.log[i].label = "round"}

\* the errors of a failed round check and of a failed mask opening
RoundMismatch == {"while verifying zk sumcheck"}
MaskOpeningFailed == {"while verifying PCS openning", "PCS openning failed"}

\* the outcome of the calls the wrapper makes on its arguments, from the
\* fresh transcript
RoundOutcome ==
    LET derived == Challenge(Bind(TranscriptNew(transcript.failing),
                                  wargs.proof))
    IN  RoundCheck(derived.tr, wargs.proof, wargs.claimed_sum,
                   derived.challenge)
MaskFlag ==
    PST13Check(wargs.mask_vk, wargs.proof.g_commit,
               RoundOutcome.subclaim.point, wargs.proof.g_value,
               wargs.proof.g_proof)

\* C13: in every run of the wrapper g_commit is appended to the
\* transcript first, r1 is derived next and before the round verifier
\* touches the transcript, no challenge is derived before g_commit is
\* appended, and the mask opening is checked only after the round check
\* has returned a subclaim.
WrapperStepsInOrder ==
    InWrapper =>
        /\ pc # "entered" => BindAt = {1}
        /\ challenge.some <=> ChallengeAt = {2}
        /\ \A i \in 1..Len(transcript.log) :
              transcript.log[i].op = "challenge" => \E j \in BindAt : j < i
        /\ \A i \in RoundsAt : challenge.some /\ i > 2
        /\ subclaim.some => (challenge.some /\ RoundsAt # {})
        /\ (pc = "returned" /\ (outcome.ok \/ outcome.error[1] \in MaskOpeningFailed))
              => (subclaim.some /\ RoundOutcome.ok)
        /\ (pc = "returned" /\ ~subclaim.some)
              => outcome.error[1] \in RoundMismatch

\* the wrapper has returned after the four steps on a proof of two rounds
WrapperStepsInOrderReached ==
    /\ pc = "returned"
    /\ BindAt = {1}
    /\ ChallengeAt = {2}
    /\ RoundsAt = {3, 4, 5, 6}
    /\ subclaim.some
    /\ ~outcome.ok

\* C14: the wrapper returns Ok(subclaim), with the subclaim of the round
\* verifier unchanged, exactly when the round check succeeded and the
\* check of the mask opening returned true; otherwise it returns an error
\* and no subclaim.
WrapperTerminal ==
    pc = "returned" =>
        /\ outcome.ok <=> (RoundOutcome.ok /\ MaskFlag.ok /\ MaskFlag.flag)
        /\ outcome.ok => outcome = Accept(RoundOutcome.subclaim)
        /\ ~outcome.ok => (DOMAIN outcome = {"ok", "error"}
                             /\ Len(outcome.error) >= 1)

\* the wrapper has returned an error on a proof that passes the round
\* check and fails the check of the mask opening
WrapperTerminalReached ==
    /\ pc = "returned"
    /\ RoundOutcome.ok
    /\ ~MaskFlag.flag
    /\ ~outcome.ok

\* C15: an error of the wrapper tells which check failed: a failed round
\* check returns the context "while verifying zk sumcheck", a failed mask
\* opening one of "while verifying PCS openning" and "PCS openning
\* failed", and the two sets of errors are disjoint.
WrapperErrorsDistinct ==
    (pc = "returned" /\ ~outcome.ok) =>
        /\ RoundMismatch \cap MaskOpeningFailed = {}
        /\ ~RoundOutcome.ok <=> outcome.error[1] \in RoundMismatch
        /\ RoundOutcome.ok <=> outcome.error[1] \in MaskOpeningFailed

\* the wrapper has returned the error of a failed round check on a proof
\* whose mask opening is right
WrapperErrorsDistinctReached ==
    /\ pc = "returned"
    /\ ~outcome.ok
    /\ outcome.error[1] \in RoundMismatch
    /\ wargs.proof.g_commit = call.honest.proof.g_commit
    /\ Len(wargs.proof.sumcheck_proof) = 2

\* the wrapper was handed the arguments of the prover
HonestArguments ==
    /\ wargs.proof = call.honest.proof
    /\ wargs.claimed_sum = call.honest.claimed_sum

\* the wrapper was handed the arguments of the prover with g_commit
\* replaced by another commitment, and accepts the arguments of the prover
OnlyCommitSwapped ==
    /\ wargs.proof.g_commit # call.honest.proof.g_commit
    /\ wargs.proof = [call.honest.proof EXCEPT
                          !.g_commit = wargs.proof.g_commit]
    /\ wargs.claimed_sum = call.honest.claimed_sum
    /\ ZkSumcheckVerifierWrapper(call.honest.mask_vk, call.honest.proof,
                                 TranscriptNew(transcript.failing),
                                 call.honest.claimed_sum).ok

\* the subclaim the wrapper derives from the arguments of the prover
HonestSubclaim ==
    ZkSumcheckVerifierWrapper(call.honest.mask_vk, call.honest.proof,
                              TranscriptNew(transcript.failing),
                              call.honest.claimed_sum).subclaim

AppendErrorReported ==
    (pc = "returned" /\ \E i \in BindAt : ~transcript.log[i].ok)
        => ~outcome.ok

-----------------------------------------------------------------------------
(* Properties of the mask opening, of hiding and of the mask lifecycle.    *)

\* the quotients special_open computes for the mask at the opening point
Quotients == DivideAtPoint(p_hat, point)

\* the variables the terms of a polynomial mention
VarsOf(p) ==
    UNION {{term[idx][1] : idx \in 1..Len(term)} : term \in DOMAIN p.terms}

\* C22: for the mask p and the opening point z, the quotients q_0..q_{n-1}
\* of divide_at_point satisfy p(X) - p(z) = sum_i q_i(X) * (X_i - z_i) at
\* every X, q_i mentions no variable but X_i, and the proof of special_open
\* is the list of the commitments to q_0..q_{n-1} in that order.
DivisionExact ==
    (call.op = "open" /\ pc = "opened") =>
        LET n == p_hat.num_vars
            q == Quotients
        IN  /\ Len(q) = n
            /\ \A x \in [1..n -> Fld] :
                  FSub(PolyEval(p_hat, x), PolyEval(p_hat, point))
                      = FSumRange([i \in 1..n |->
                                      FMul(PolyEval(q[i], x),
                                           FSub(x[i], point[i]))], 1, n)
            /\ \A i \in 1..n : VarsOf(q[i]) \subseteq {i - 1}
            /\ SpecialOpen(keys.ck[2], p_hat, point).w
                  = [i \in 1..n |->
                        FMul(keys.vk[2].g, PolyEval(q[i], KeptTrapdoor))]

\* an opening of a mask with a term of degree 2 in its second variable at
\* a point whose second coordinate is 2: the second quotient has a constant
\* term and a commitment that is not the identity
DivisionExactReached ==
    /\ pc = "opened"
    /\ p_hat.num_vars = 2
    /\ point[2] = 2
    /\ << <<1, 2>> >> \in DOMAIN p_hat.terms
    /\ ConstTerm \in DOMAIN Quotients[2].terms
    /\ SpecialOpen(keys.ck[2], p_hat, point).w[2] # 0

\* what a second call of commit returns on the same key and the same
\* polynomial, with the generator in state s
SecondCommit(hiding_bound, mask_num_var, s) ==
    ZKCommit(keys.ck, polynomial, hiding_bound, mask_num_var, s)

\* the commitment to a mask under the trimmed mask key
MaskCommitment(mask) == CommitMask(keys.ck[2], mask).comm

\* C23: a second commit on the same polynomial with the same key and the
\* same hiding bound and mask size, with the generator in any state, returns
\* a different commitment value whenever the commitments to the two masks
\* differ, and the commitments to the two masks are equal exactly when the
\* masks have the same evaluation at the trapdoor.
HidingUnlessMasksCollide ==
    (call.op = "commit" /\ pc = "committed") =>
        \A s \in 1..(RngMod - 1) :
            LET second == SecondCommit(call.commit.hiding_bound,
                                       call.commit.mask_num_var, s)
            IN  ~second.panic =>
                  /\ MaskCommitment(second.p_hat) # MaskCommitment(p_hat)
                        => second.commitment.g_product
                              # commitment.g_product
                  /\ MaskCommitment(second.p_hat) = MaskCommitment(p_hat)
                        <=> PolyEval(second.p_hat, KeptTrapdoor)
                              = PolyEval(p_hat, KeptTrapdoor)

\* a commitment and a generator state from which the second commit draws
\* a mask with another commitment
HidingUnlessMasksCollideReached ==
    /\ pc = "committed"
    /\ \E s \in 1..(RngMod - 1) :
          LET second == SecondCommit(call.commit.hiding_bound,
                                     call.commit.mask_num_var, s)
          IN  /\ s # call.commit.rng
              /\ ~second.panic
              /\ second.p_hat # p_hat
              /\ MaskCommitment(second.p_hat) # MaskCommitment(p_hat)
              /\ second.commitment.g_product # commitment.g_product

\* C24: the mask witness a commit returned is used for one opening: no
\* opening is followed by another opening with the same mask witness.
MaskOpenedOnce ==
    [][~(/\ call.op = "open" /\ pc = "opened"
         /\ call'.op = "open" /\ pc' = "opened"
         /\ p_hat' = p_hat)]_vars

\* C25: with a mask over the n variables of the trimmed key and
\* hiding_bound <= deg_for_mask <= d, open does not fail and every term of
\* every quotient of special_open is a key of ck.powers_of_g.
KeyCoversQuotients ==
    (/\ call.op = "open"
     /\ p_hat.num_vars = call.trim.num_variables
     /\ call.commit.hiding_bound <= call.trim.deg_for_mask
     /\ call.trim.deg_for_mask <= call.setup.hiding_bound) =>
        /\ pc = "opened"
        /\ \A i \in 1..Len(Quotients) : HasPowers(keys.ck[2], Quotients[i])

\* an opening under a key trimmed from two variables to one, with a
\* quotient that has a term of degree 1 and a constant term
KeyCoversQuotientsReached ==
    /\ pc = "opened"
    /\ call.setup.num_vars = 2
    /\ call.trim.num_variables = 1
    /\ p_hat.num_vars = 1
    /\ call.commit.hiding_bound <= call.trim.deg_for_mask
    /\ call.trim.deg_for_mask <= call.setup.hiding_bound
    /\ DOMAIN Quotients[1].terms = {ConstTerm, << <<0, 1>> >>}

-----------------------------------------------------------------------------
(* SparseMatrix (noir-r1cs/src/sparse_matrix.rs): a matrix of interned     *)
(* field elements in compressed-row form.  Rows, columns and the offsets   *)
(* in row_indices count from 0 as in the code; the vectors row_indices,    *)
(* col_indices and values are sequences, so the element at offset k is     *)
(* the (k+1)-th.  Indices are stored as u32; every index of the model is   *)
(* far below 2^32, the range in which the casts `as u32` keep the value.   *)

MaxDim == 2       \* largest number of rows and of columns of a matrix
MaxSets == 3      \* largest number of set calls on one matrix

\* the interner: the field element interned under each id; the last id
\* holds zero
Interner == [id \in 0..(Modulus - 2) |-> (id + 2) % Modulus]

\* Interner::get
InternerGet(id) ==
    IF id \in DOMAIN Interner THEN Some(Interner[id]) ELSE None

\* SparseMatrix::new
SparseMatrixNew(rows, cols) ==
    [rows |-> rows, cols |-> cols,
     row_indices |-> [k \in 1..rows |-> 0],
     col_indices |-> << >>,
     values |-> << >>]

\* SparseMatrix::num_entries
NumEntries(m) == Len(m.values)

\* Vec::resize(new_len, value)
Resize(vec, new_len, value) ==
    [k \in 1..new_len |-> IF k <= Len(vec) THEN vec[k] ELSE value]

\* Vec::insert(index, element)
Insert(vec, index, element) ==
    SubSeq(vec, 1, index) \o <<element>> \o SubSeq(vec, index + 1, Len(vec))

\* the variant that starts the new rows at offset 0
SparseMatrixGrowFromZero(m, rows, cols) ==
    IF ~(rows >= m.rows) THEN Panic("assertion failed: rows >= self.rows")
    ELSE IF ~(cols >= m.cols)
    THEN Panic("assertion failed: cols >= self.cols")
    ELSE [panic |-> FALSE,
          matrix |-> [m EXCEPT !.rows = rows, !.cols = cols,
                               !.row_indices =
                                   Resize(m.row_indices, rows, 0)]]

\* SparseMatrix::grow
SparseMatrixGrow(m, rows, cols) ==
    IF ~(rows >= m.rows) THEN Panic("assertion failed: rows >= self.rows")
    ELSE IF ~(cols >= m.cols)
    THEN Panic("assertion failed: cols >= self.cols")
    ELSE [panic |-> FALSE,
          matrix |-> [m EXCEPT !.rows = rows, !.cols = cols,
                               !.row_indices =
                                   Resize(m.row_indices, rows, Len(m.values))]]

\* SparseMatrix::row_range: start..end, offsets into col_indices and values
RowRange(m, row) ==
    IF ~(row < Len(m.row_indices)) THEN Panic("Row index out of bounds")
    ELSE [panic |-> FALSE,
          start |-> m.row_indices[row + 1],
          end |-> IF row + 1 < Len(m.row_indices)
                  THEN m.row_indices[row + 2]
                  ELSE Len(m.values)]

\* the slice vec[range]
Slice(vec, range) == SubSeq(vec, range.start + 1, range.end)

\* slice::binary_search on the half-open window left..right: Ok(i) with
\* the offset of an equal element, or Err(i) with the offset left = right
\* at which the search ends
RECURSIVE BinarySearchIn(_, _, _, _)
BinarySearchIn(slice, x, left, right) ==
    IF left >= right THEN [ok |-> FALSE, i |-> left]
    ELSE LET mid == left + ((right - left) \div 2)
         IN  IF slice[mid + 1] = x THEN [ok |-> TRUE, i |-> mid]
             ELSE IF slice[mid + 1] < x
             THEN BinarySearchIn(slice, x, mid + 1, right)
             ELSE BinarySearchIn(slice, x, left, mid)

BinarySearch(slice, x) == BinarySearchIn(slice, x, 0, Len(slice))

\* the variant that inserts a new entry without moving the starts of the
\* rows that follow
SparseMatrixSetNoShift(m, row, col, value) ==
    IF ~(row < m.rows) THEN Panic("row index out of bounds")
    ELSE IF ~(col < m.cols) THEN Panic("column index out of bounds")
    ELSE
    LET row_range == RowRange(m, row)
    IN  IF row_range.panic THEN row_range
        ELSE IF row_range.start > row_range.end
                 \/ row_range.end > Len(m.col_indices)
        THEN Panic("slice index out of range")
        ELSE
        LET found == BinarySearch(Slice(m.col_indices, row_range), col)
        IN  IF found.ok
            THEN [panic |-> FALSE,
                  matrix |-> [m EXCEPT
                      !.values[row_range.start + found.i + 1] = value]]
            ELSE LET i == found.i + row_range.start
                 IN  [panic |-> FALSE,
                      matrix |-> [m EXCEPT
                          !.col_indices = Insert(m.col_indices, i, col),
                          !.values = Insert(m.values, i, value)]]

\* the variant that replaces the entry found at offset i of the whole
\* vector instead of offset i of the row
SparseMatrixSetReplacesFirstRow(m, row, col, value) ==
    IF ~(row < m.rows) THEN Panic("row index out of bounds")
    ELSE IF ~(col < m.cols) THEN Panic("column index out of bounds")
    ELSE
    LET row_range == RowRange(m, row)
    IN  IF row_range.panic THEN row_range
        ELSE IF row_range.start > row_range.end
                 \/ row_range.end > Len(m.col_indices)
        THEN Panic("slice index out of range")
        ELSE
        LET found == BinarySearch(Slice(m.col_indices, row_range), col)
        IN  IF found.ok
            THEN [panic |-> FALSE,
                  matrix |-> [m EXCEPT !.values[found.i + 1] = value]]
            ELSE LET i == found.i + row_range.start
                 IN  [panic |-> FALSE,
                      matrix |-> [m EXCEPT
                          !.col_indices = Insert(m.col_indices, i, col),
                          !.values = Insert(m.values, i, value),
                          !.row_indices =
                              [k \in 1..Len(m.row_indices) |->
                                  IF k > row + 1
                                  THEN m.row_indices[k] + 1
                                  ELSE m.row_indices[k]]]]

\* SparseMatrix::set
SparseMatrixSet(m, row, col, value) ==
    IF ~(row < m.rows) THEN Panic("row index out of bounds")
    ELSE IF ~(col < m.cols) THEN Panic("column index out of bounds")
    ELSE
    LET row_range == RowRange(m, row)
    IN  IF row_range.panic THEN row_range
        ELSE IF row_range.start > row_range.end
                 \/ row_range.end > Len(m.col_indices)
        THEN Panic("slice index out of range")
        ELSE
        LET found == BinarySearch(Slice(m.col_indices, row_range), col)
        IN  IF found.ok
            THEN [panic |-> FALSE,
                  matrix |-> [m EXCEPT
                      !.values[row_range.start + found.i + 1] = value]]
            ELSE LET i == found.i + row_range.start
                 IN  [panic |-> FALSE,
                      matrix |-> [m EXCEPT
                          !.col_indices = Insert(m.col_indices, i, col),
                          !.values = Insert(m.values, i, value),
                          !.row_indices =
                              [k \in 1..Len(m.row_indices) |->
                                  IF k > row + 1
                                  THEN m.row_indices[k] + 1
                                  ELSE m.row_indices[k]]]]

\* SparseMatrix::iter_row: the (column, value) pairs of a row in the order
\* they are stored.  On a row the matrix does not have, or a range that
\* does not lie within the vectors, the code panics; the empty sequence
\* stands for that, and the properties ask for rows of the matrix only.
IterRow(m, row) ==
    LET row_range == RowRange(m, row)
    IN  IF row_range.panic \/ row_range.start > row_range.end
           \/ row_range.end > Len(m.col_indices)
           \/ row_range.end > Len(m.values)
        THEN << >>
        ELSE [k \in 1..(row_range.end - row_range.start) |->
                 <<m.col_indices[row_range.start + k],
                   m.values[row_range.start + k]>>]

\* SparseMatrix::iter: ((row, column), value) for the rows 0.. in order
RECURSIVE IterFrom(_, _)
IterFrom(m, row) ==
    IF row >= Len(m.row_indices) THEN << >>
    ELSE LET entries == IterRow(m, row)
         IN  [k \in 1..Len(entries) |->
                 << <<row, entries[k][1]>>, entries[k][2] >>]
                 \o IterFrom(m, row + 1)

Iter(m) == IterFrom(m, 0)

\* HydratedSparseMatrix::iter: the values looked up in the interner
HydratedIter(m) ==
    LET entries == Iter(m)
    IN  IF \E k \in 1..Len(entries) : ~InternerGet(entries[k][2]).some
        THEN Panic("Value not in interner.")
        ELSE [panic |-> FALSE,
              entries |-> [k \in 1..Len(entries) |->
                              <<entries[k][1],
                                InternerGet(entries[k][2]).val>>]]

\* the loop of the right product: result[i] += value * rhs[j]
RECURSIVE RightLoop(_, _, _)
RightLoop(entries, rhs, result) ==
    IF entries = << >> THEN result
    ELSE LET i == Head(entries)[1][1]
             j == Head(entries)[1][2]
             value == Head(entries)[2]
         IN  RightLoop(Tail(entries), rhs,
                       [result EXCEPT ![i + 1] =
                            FAdd(@, FMul(value, rhs[j + 1]))])

\* the loop of the left product: result[j] += value * lhs[i]
RECURSIVE LeftLoop(_, _, _)
LeftLoop(entries, lhs, result) ==
    IF entries = << >> THEN result
    ELSE LET i == Head(entries)[1][1]
             j == Head(entries)[1][2]
             value == Head(entries)[2]
         IN  LeftLoop(Tail(entries), lhs,
                      [result EXCEPT ![j + 1] =
                           FAdd(@, FMul(value, lhs[i + 1]))])

\* the variant of the right product that does not compare the lengths
MulRightUnchecked(m, rhs) ==
    LET hydrated == HydratedIter(m)
    IN  IF hydrated.panic THEN hydrated
        ELSE [panic |-> FALSE,
              result |-> RightLoop(hydrated.entries,
                                   Resize(rhs, m.cols, 0),
                                   [k \in 1..m.rows |-> 0])]

\* Mul<&[F]> for HydratedSparseMatrix: matrix * rhs
MulRight(m, rhs) ==
    IF m.cols # Len(rhs)
    THEN Panic("Vector length does not match number of columns.")
    ELSE LET hydrated == HydratedIter(m)
         IN  IF hydrated.panic THEN hydrated
             ELSE [panic |-> FALSE,
                   result |-> RightLoop(hydrated.entries, rhs,
                                        [k \in 1..m.rows |-> 0])]

\* Mul<HydratedSparseMatrix> for &[F]: lhs * matrix
MulLeft(lhs, m) ==
    IF Len(lhs) # m.rows
    THEN Panic("Vector length does not match number of rows.")
    ELSE LET hydrated == HydratedIter(m)
         IN  IF hydrated.panic THEN hydrated
             ELSE [panic |-> FALSE,
                   result |-> LeftLoop(hydrated.entries, lhs,
                                       [k \in 1..m.cols |-> 0])]

-----------------------------------------------------------------------------
(* The matrix operations: a matrix is made by new, then grown and set any  *)
(* number of times with arguments chosen freely, then multiplied by a      *)
(* vector from the left or from the right.                                 *)

\* the vectors tried in a product: of every length up to one more than the
\* largest dimension
VectorFamily ==
    UNION {{[k \in 1..len |-> (c * k + (c - 1) * k * k) % Modulus] :
               c \in 1..NumPolys} : len \in 0..(MaxDim + 1)}

InitMatrix ==
    /\ pc = "start"
    /\ rng = 0
    /\ call = [op |-> "none"]
    /\ mask_out = None
    /\ special = None
    /\ srs = None
    /\ t = None
    /\ keys = None
    /\ polynomial = None
    /\ commitment = None
    /\ p_hat = None
    /\ point = None
    /\ proof = None
    /\ checked = None
    /\ wargs = None
    /\ transcript = None
    /\ challenge = None
    /\ subclaim = None
    /\ outcome = None
    /\ matrix = None
    /\ set_cells = None
    /\ num_sets = None
    /\ product = None
    /\ opcodes = None
    /\ scan = None
    /\ report = None

CallNew ==
    /\ pc = "start"
    /\ \E rows \in 0..MaxDim, cols \in 0..MaxDim :
          /\ call' = [op |-> "new", rows |-> rows, cols |-> cols]
          /\ matrix' = SparseMatrixNew(rows, cols)
    /\ set_cells' = << >>
    /\ num_sets' = 0
    /\ pc' = "built"
    /\ UNCHANGED <<rng, product>>
    /\ UNCHANGED sessionVars
    /\ UNCHANGED wrapperVars
    /\ UNCHANGED statsVars

CallGrow ==
    /\ pc = "built"
    /\ \E rows \in 0..MaxDim, cols \in 0..MaxDim :
          LET r == SparseMatrixGrow(matrix, rows, cols)
          IN  /\ call' = [op |-> "grow", rows |-> rows, cols |-> cols,
                          self |-> [rows |-> matrix.rows,
                                    cols |-> matrix.cols]]
              /\ matrix' = IF r.panic THEN matrix ELSE r.matrix
              /\ pc' = IF r.panic THEN "panic" ELSE "built"
    /\ UNCHANGED <<rng, set_cells, num_sets, product>>
    /\ UNCHANGED sessionVars
    /\ UNCHANGED wrapperVars
    /\ UNCHANGED statsVars

CallSet ==
    /\ pc = "built"
    /\ num_sets < MaxSets
    /\ \E row \in 0..MaxDim, col \in 0..MaxDim, value \in DOMAIN Interner :
          LET r == SparseMatrixSet(matrix, row, col, value)
          IN  /\ call' = [op |-> "set", row |-> row, col |-> col,
                          value |-> value]
              /\ matrix' = IF r.panic THEN matrix ELSE r.matrix
              /\ set_cells' = IF r.panic THEN set_cells
                              ELSE (<<row, col>> :> value) @@ set_cells
              /\ pc' = IF r.panic THEN "panic" ELSE "built"
    /\ num_sets' = num_sets + 1
    /\ UNCHANGED <<rng, product>>
    /\ UNCHANGED sessionVars
    /\ UNCHANGED wrapperVars
    /\ UNCHANGED statsVars

CallMulRight ==
    /\ pc = "built"
    /\ \E rhs \in VectorFamily :
          LET r == MulRight(matrix, rhs)
          IN  /\ call' = [op |-> "mul_right", vector |-> rhs]
              /\ product' = r
              /\ pc' = IF r.panic THEN "panic" ELSE "multiplied"
    /\ UNCHANGED <<rng, matrix, set_cells, num_sets>>
    /\ UNCHANGED sessionVars
    /\ UNCHANGED wrapperVars
    /\ UNCHANGED statsVars

CallMulLeft ==
    /\ pc = "built"
    /\ \E lhs \in VectorFamily :
          LET r == MulLeft(lhs, matrix)
          IN  /\ call' = [op |-> "mul_left", vector |-> lhs]
              /\ product' = r
              /\ pc' = IF r.panic THEN "panic" ELSE "multiplied"
    /\ UNCHANGED <<rng, matrix, set_cells, num_sets>>
    /\ UNCHANGED sessionVars
    /\ UNCHANGED wrapperVars
    /\ UNCHANGED statsVars

NextMatrix == CallNew \/ CallGrow \/ CallSet \/ CallMulRight \/ CallMulLeft

SpecMatrix == InitMatrix /\ [][NextMatrix]_vars

-----------------------------------------------------------------------------
(* Properties of SparseMatrix.                                             *)

\* the (column, value) pairs iter_row yields for one column of a row
EntriesAt(m, row, col) == SelectSeq(IterRow(m, row), LAMBDA e : e[1] = col)

GrowPreserves ==
    [][/\ call'.op = "grow" =>
            IF call'.rows >= matrix.rows /\ call'.cols >= matrix.cols
            THEN /\ pc' = "built"
                 /\ \A row \in 0..(matrix.rows - 1) :
                       IterRow(matrix', row) = IterRow(matrix, row)
                 /\ \A row \in matrix.rows..(call'.rows - 1) :
                       /\ RowRange(matrix', row).panic = FALSE
                       /\ IterRow(matrix', row) = << >>
                 /\ NumEntries(matrix') = NumEntries(matrix)
            ELSE /\ pc' = "panic"
                 /\ matrix' = matrix
       /\ (call'.op = "set" /\ pc' = "built") =>
            \A row \in 0..(matrix.rows - 1) :
                (row # call'.row /\ IterRow(matrix, row) = << >>)
                    => IterRow(matrix', row) = << >>]_vars

\* a grow has added a row to a matrix with an entry
GrowPreservesReached ==
    /\ pc = "built"
    /\ call.op = "grow"
    /\ call.self.rows = 1
    /\ call.rows = 2
    /\ call.cols > call.self.cols
    /\ NumEntries(matrix) >= 1

\* the dense reference: the field element of a cell, zero when the cell
\* was never set
Dense(i, j) ==
    IF <<i, j>> \in DOMAIN set_cells THEN Interner[set_cells[<<i, j>>]] ELSE 0

\* C29: the right product of the hydrated matrix with a vector of length
\* cols has entry i equal to sum_j M[i][j] * v[j], the left product with a
\* vector of length rows has entry j equal to sum_i v[i] * M[i][j], and a
\* product with a vector of any other length fails.
ProductsAgreeWithDense ==
    /\ call.op = "mul_right" =>
          IF Len(call.vector) = matrix.cols
          THEN /\ pc = "multiplied"
               /\ product.result
                     = [i \in 1..matrix.rows |->
                           FSumRange([j \in 1..matrix.cols |->
                                         FMul(Dense(i - 1, j - 1),
                                              call.vector[j])],
                                     1, matrix.cols)]
          ELSE pc = "panic"
    /\ call.op = "mul_left" =>
          IF Len(call.vector) = matrix.rows
          THEN /\ pc = "multiplied"
               /\ product.result
                     = [j \in 1..matrix.cols |->
                           FSumRange([i \in 1..matrix.rows |->
                                         FMul(call.vector[i],
                                              Dense(i - 1, j - 1))],
                                     1, matrix.rows)]
          ELSE pc = "panic"

\* a left product of a vector with a matrix of two rows and two columns
\* with three entries, one of them zero, that is not the zero vector
ProductsAgreeWithDenseReached ==
    /\ pc = "multiplied"
    /\ call.op = "mul_left"
    /\ matrix.rows = 2
    /\ matrix.cols = 2
    /\ NumEntries(matrix) = 3
    /\ \E cell \in DOMAIN set_cells : Dense(cell[1], cell[2]) = 0
    /\ \E j \in 1..2 : product.result[j] # 0

-----------------------------------------------------------------------------
(* circuit_stats (noir-r1cs/src/cli/cmd/circuit_stats.rs): main scans the  *)
(* opcodes of the circuit in order and prints counters.  Of an opcode the  *)
(* model keeps its kind and, for a MemoryOp, the block, the operation      *)
(* (the expression zero for a read, one for a write) and the index         *)
(* expression; two index expressions are equal when they are the same      *)
(* expression.                                                             *)

MaxOps == 3       \* largest number of opcodes of a circuit
MaxBlock == 1     \* largest block id of a memory operation

\* the index expressions of the memory operations tried
IndexExpressions == {"x", "y"}

\* Expression::zero() and Expression::one()
ExpressionZero == 0
ExpressionOne == 1

\* the opcodes tried: every MemoryOp on the blocks and index expressions,
\* a MemoryInit of one element and an AssertZero
OpcodeFamily ==
    {[kind |-> "MemoryOp", block_id |-> b,
      op |-> [operation |-> o, index |-> e]] :
        b \in 0..MaxBlock, o \in {ExpressionZero, ExpressionOne},
        e \in IndexExpressions}
    \cup {[kind |-> "MemoryInit", init |-> <<0>>], [kind |-> "AssertZero"]}

\* the locals of main that track memory operations, as initialised
MemoryLocals ==
    [mem_read_counter |-> 0,
     mem_write_counter |-> 0,
     mem_alloc_counter |-> 0,
     mem_alloc_total_size |-> 0,
     mem_read_locs |-> {},
     all_reads_after_writes |-> TRUE]

\* the variant in which a read does not record its location
MemoryOpArmForgetsReads(locals, opcode) ==
    IF opcode.op.operation = ExpressionZero
    THEN [locals EXCEPT !.mem_read_counter = @ + 1]
    ELSE [locals EXCEPT
             !.mem_write_counter = @ + 1,
             !.all_reads_after_writes =
                 IF <<opcode.block_id, opcode.op.index>>
                        \in locals.mem_read_locs
                 THEN FALSE ELSE @]

\* the arm Opcode::MemoryOp of the match
MemoryOpArm(locals, opcode) ==
    IF opcode.op.operation = ExpressionZero
    THEN [locals EXCEPT
             !.mem_read_counter = @ + 1,
             !.mem_read_locs =
                 @ \cup {<<opcode.block_id, opcode.op.index>>}]
    ELSE [locals EXCEPT
             !.mem_write_counter = @ + 1,
             !.all_reads_after_writes =
                 IF <<opcode.block_id, opcode.op.index>>
                        \in locals.mem_read_locs
                 THEN FALSE ELSE @]

\* the arm Opcode::MemoryInit of the match
MemoryInitArm(locals, opcode) ==
    [locals EXCEPT !.mem_alloc_counter = @ + 1,
                   !.mem_alloc_total_size = @ + Len(opcode.init)]

\* the lines main prints about memory operations
MemoryReport(locals) ==
    [inits |-> locals.mem_alloc_counter,
     alloc_size |-> locals.mem_alloc_total_size,
     writes |-> locals.mem_write_counter,
     reads |-> locals.mem_read_counter,
     read_only |-> locals.all_reads_after_writes]

\* the sequences of at most n opcodes
RECURSIVE OpcodeSeqs(_)
OpcodeSeqs(n) ==
    IF n = 0 THEN {<< >>}
    ELSE LET shorter == OpcodeSeqs(n - 1)
         IN  shorter \cup {Append(ops, opcode) :
                              ops \in shorter, opcode \in OpcodeFamily}

InitStats ==
    /\ pc = "scanning"
    /\ rng = 0
    /\ call = [op |-> "none"]
    /\ mask_out = None
    /\ special = None
    /\ srs = None
    /\ t = None
    /\ keys = None
    /\ polynomial = None
    /\ commitment = None
    /\ p_hat = None
    /\ point = None
    /\ proof = None
    /\ checked = None
    /\ wargs = None
    /\ transcript = None
    /\ challenge = None
    /\ subclaim = None
    /\ outcome = None
    /\ matrix = None
    /\ set_cells = None
    /\ num_sets = None
    /\ product = None
    /\ opcodes \in OpcodeSeqs(MaxOps)
    /\ scan = [next |-> 1, locals |-> MemoryLocals]
    /\ report = None

\* one iteration of the loop on a MemoryOp
ScanMemoryOp ==
    /\ pc = "scanning"
    /\ scan.next <= Len(opcodes)
    /\ opcodes[scan.next].kind = "MemoryOp"
    /\ scan' = [next |-> scan.next + 1,
                locals |-> MemoryOpArm(scan.locals, opcodes[scan.next])]
    /\ UNCHANGED <<pc, rng, call, opcodes, report>>
    /\ UNCHANGED sessionVars
    /\ UNCHANGED wrapperVars
    /\ UNCHANGED matrixVars

\* one iteration of the loop on a MemoryInit
ScanMemoryInit ==
    /\ pc = "scanning"
    /\ scan.next <= Len(opcodes)
    /\ opcodes[scan.next].kind = "MemoryInit"
    /\ scan' = [next |-> scan.next + 1,
                locals |-> MemoryInitArm(scan.locals, opcodes[scan.next])]
    /\ UNCHANGED <<pc, rng, call, opcodes, report>>
    /\ UNCHANGED sessionVars
    /\ UNCHANGED wrapperVars
    /\ UNCHANGED matrixVars

\* one iteration of the loop on an opcode of another kind: the locals that
\* track memory operations stay as they are
ScanOther ==
    /\ pc = "scanning"
    /\ scan.next <= Len(opcodes)
    /\ opcodes[scan.next].kind \notin {"MemoryOp", "MemoryInit"}
    /\ scan' = [scan EXCEPT !.next = @ + 1]
    /\ UNCHANGED <<pc, rng, call, opcodes, report>>
    /\ UNCHANGED sessionVars
    /\ UNCHANGED wrapperVars
    /\ UNCHANGED matrixVars

\* the loop has ended: main prints the counters
PrintReport ==
    /\ pc = "scanning"
    /\ scan.next > Len(opcodes)
    /\ report' = MemoryReport(scan.locals)
    /\ pc' = "reported"
    /\ UNCHANGED <<rng, call, opcodes, scan>>
    /\ UNCHANGED sessionVars
    /\ UNCHANGED wrapperVars
    /\ UNCHANGED matrixVars

NextStats == ScanMemoryOp \/ ScanMemoryInit \/ ScanOther \/ PrintReport

SpecStats == InitStats /\ [][NextStats]_vars

-----------------------------------------------------------------------------
(* Properties of circuit_stats.                                            *)

IsRead(opcode) ==
    opcode.kind = "MemoryOp" /\ opcode.op.operation = ExpressionZero

IsWrite(opcode) ==
    opcode.kind = "MemoryOp" /\ opcode.op.operation = ExpressionOne

\* the (block_id, index) of a memory operation
Location(opcode) == <<opcode.block_id, opcode.op.index>>

\* some write comes after a read of the same (block_id, index)
WriteAfterRead ==
    \E i, j \in 1..Len(opcodes) :
        /\ i < j
        /\ IsRead(opcodes[i])
        /\ IsWrite(opcodes[j])
        /\ Location(opcodes[i]) = Location(opcodes[j])

\* C30: after the scan, the flag printed as "Read-only" is false exactly
\* when the sequence has a write to some (block_id, index) after a read of
\* the same (block_id, index), and the counters printed are the numbers of
\* read and of write MemoryOp opcodes.
ReadOnlyIffNoWriteAfterRead ==
    pc = "reported" =>
        /\ report.read_only = ~WriteAfterRead
        /\ report.reads
              = Cardinality({i \in 1..Len(opcodes) : IsRead(opcodes[i])})
        /\ report.writes
              = Cardinality({i \in 1..Len(opcodes) : IsWrite(opcodes[i])})

\* a report on a write, a read and a second write of one location: the
\* flag is false
ReadOnlyIffNoWriteAfterReadReached ==
    /\ pc = "reported"
    /\ Len(opcodes) = 3
    /\ IsWrite(opcodes[1])
    /\ IsRead(opcodes[2])
    /\ IsWrite(opcodes[3])
    /\ Location(opcodes[1]) = Location(opcodes[2])
    /\ Location(opcodes[2]) = Location(opcodes[3])
    /\ ~report.read_only
    /\ report.writes = 2

====
